---- MODULE Spec2Model ----
(***************************************************************************)
(* Visual Leak Detector: the allocation hook dispatcher, the block map,    *)
(* the leak scan (vld.cpp) and the import patcher (utility.cpp).           *)
(*                                                                         *)
(* The debug heap is the environment.  What vld.cpp says about it is what  *)
(* is modelled: it locks the heap before it calls the hook (vld.cpp        *)
(* 204-206), it calls the hook before the block exists (210-213), a hook   *)
(* returning false denies the request (242-245), every request gets a new  *)
(* request number (228-230) and the newest block is the head of the        *)
(* allocated list (792-798).                                               *)
(***************************************************************************)
EXTENDS Integers, Sequences, FiniteSets, TLC

VARIABLES
    m_installed,   \* vld.cpp 113
    m_poldhook,    \* vld.cpp 115: "NULL" or "oldhook"
    pfnAllocHook,  \* the hook the debug heap calls (_CrtSetAllocHook)
    inallochook,   \* vld.cpp 249: static bool, one for the process
    m_mallocmap,   \* vld.cpp 114: request id -> record of the Pair
    heap,          \* the allocated list, newest first: <<[lRequest, nBlockUse]>>
    lRequestCurr,  \* next request number of the debug heap
    heapLock,      \* the lock of the debug heap: [owner, count]
    stack,         \* per thread: the requests in progress, innermost last
    phase,         \* "running", "detached", "reported", "exited"
    leaks,         \* reportleaks: request ids of the block headers emitted
    allocEv,       \* history: the application alloc events the hook received: [id, use]
    freeEv,        \* history: ids of application free events the hook received
    trackedEv,     \* history: ids whose alloc event took the tracking path
    deniedEv,      \* history: ids of requests the debug heap denied
    calls,         \* number of requests the application has made
    diag,          \* history: the diagnostics report() was called for
    scanEv,        \* history: what allochook did during reportleaks:
                   \*   [events, inserted, erased]
    \* the process the detector is loaded into
    dbghelp,       \* dbghelp.dll as LoadLibrary finds it: [loaded, exports]
    hook0,         \* the allocation hook installed before the constructor ran
    theirHook,     \* the hook a third party installed over allochook, or "none"
    \* the import patcher, utility.cpp
    idt,           \* the target module's import directory: [present, descs]
    patchtable,    \* the patch table: <<[exportmodulename, importname, replacement]>>
    asserts,       \* whether the build keeps assert() (no NDEBUG)
    aborted,       \* an assertion of the patcher has failed
    idt0,          \* history: the import directory before any patch
    idtPrev,       \* history: the import directory before the last operation
    ops,           \* history: the operations applied, "patch" or "restore"
    \* the per-thread state of the later VLD the tests are written for
    tlsSlot,       \* per thread: its tls_t record, 0 while there is none
    s_inVldCall,   \* per thread: depth of the calls into VLD
    m_tlsLock,     \* the recursive lock of the record registry: [owner, count]
    m_tlsMap,      \* the registry: set of [thread, tls]
    nextTls,       \* the next tls_t the allocator hands out
    tlsStack,      \* per thread: the allocations in progress, innermost last
    tlsCreated,    \* history: per thread, the number of tls_t it created
    observed,      \* history: per thread, the allocations the tracker observed
    \* the query API of the later VLD
    ledger,        \* block id -> [reported]
    apiLog,        \* history: block id -> [caller, epoch] of every allocation
    apiFreed,      \* history: ids of the blocks freed
    epoch,         \* history: number of VLDMarkAllLeaksAsReported calls
    \* one call of report(), vld.cpp 723-734 and utility.cpp 359-397
    reportCall,    \* the call: [sink, natural, unicode, convertible]
    message,       \* the buffer the call leaves behind, <<>> before the call
    debugOut,      \* what OutputDebugString did: [outcome, len]
    returned,      \* the call has ended
    \* reportleaks() on one leaked block, vld.cpp 759-882
    callstack,     \* the CallStack of the block: <<[useless, line]>>
    rl,            \* reportleaks: [pc, frame, symbols, leaksfound, shown,
                   \*               summary, cleanup]
    \* reportleaks() walking the allocated list, vld.cpp 792-876
    scanList,      \* the allocated list after the throwaway block
    scanMap,       \* m_mallocmap: request id -> number of frames of its CallStack
    sc,            \* the walk: [pc, pos, frame, leaksfound, headers, FileName,
                   \*            last, summary]
    \* buildsymbolsearchpath(), vld.cpp 301-397
    command,       \* GetCommandLineA(): a sequence of characters
    environment,   \* getenv: [SYSTEMROOT, NT_SYMBOL_PATH, NT_ALT_SYMBOL_PATH],
                   \*   each [set, value], value a sequence of characters
    m_symbolpath,  \* vld.cpp 117: <<>> is NULL
    wk,            \* reportleaks, the walk of the allocated list: [pc, list, map, before,
                   \*   pheap, pheader, visited, maxdatadump]
    \* reportleaks(), the loop over the frames of the CallStacks, vld.cpp 821-856
    fl,            \* [pc, showuselessframes, frame, block, sourceinfo, out]
    \* getstacktrace(), vld.cpp 521-567
    tr,            \* [pc, maxtraceframes, thread, count, steps, callstack]
    \* vld.cpp 413-478, 858-864; utility.cpp 52-114
    du,             \* the data dump of one leaked block: its inputs, the loop's locals, the two row buffers and the report so far
    \* utility.cpp 251-305, 418-471
    im,             \* one call of patchimport or restoreimport at a time: its arguments and locals, the import directory and the protection of the pages that hold its tables
    \* vld.cpp 132-150, 154-197, 300-312, 360-396
    lc              \* the life of the one VisualLeakDetector object: where it is, its members, and the memory it has allocated and released

dispVars == <<m_installed, m_poldhook, pfnAllocHook, inallochook, m_mallocmap,
              heap, lRequestCurr, heapLock, stack, phase, leaks,
              allocEv, freeEv, trackedEv, deniedEv, calls, diag, scanEv>>

hostVars == <<dbghelp, hook0, theirHook>>

patchVars == <<idt, patchtable, asserts, aborted, idt0, idtPrev, ops>>

tlsVars == <<tlsSlot, s_inVldCall, m_tlsLock, m_tlsMap, nextTls, tlsStack,
             tlsCreated, observed>>

apiVars == <<ledger, apiLog, apiFreed, epoch>>

reportVars == <<reportCall, message, debugOut, returned>>

leakVars == <<callstack, rl>>

scanVars == <<scanList, scanMap, sc>>

pathVars == <<command, environment, m_symbolpath>>

walkVars == <<wk>>

loopVars == <<fl>>

traceVars == <<tr>>

dumpVars == <<du>>

importVars == <<im>>

lifeVars == <<lc>>

nonDispVars ==
    <<hostVars, patchVars, tlsVars, apiVars, reportVars, leakVars,
      scanVars,
      pathVars,
      walkVars,
      loopVars,
      traceVars,
      dumpVars,
      importVars,
      lifeVars>>

nonPatchVars ==
    <<hostVars, dispVars, tlsVars, apiVars, reportVars, leakVars,
      scanVars,
      pathVars,
      walkVars,
      loopVars,
      traceVars,
      dumpVars,
      importVars,
      lifeVars>>

nonTlsVars ==
    <<hostVars, dispVars, patchVars, apiVars, reportVars, leakVars,
      scanVars,
      pathVars,
      walkVars,
      loopVars,
      traceVars,
      dumpVars,
      importVars,
      lifeVars>>

nonApiVars ==
    <<hostVars, dispVars, patchVars, tlsVars, reportVars, leakVars,
      scanVars,
      pathVars,
      walkVars,
      loopVars,
      traceVars,
      dumpVars,
      importVars,
      lifeVars>>

nonReportVars ==
    <<hostVars, dispVars, patchVars, tlsVars, apiVars, leakVars,
      scanVars,
      pathVars,
      walkVars,
      loopVars,
      traceVars,
      dumpVars,
      importVars,
      lifeVars>>

nonLeakVars ==
    <<hostVars, dispVars, patchVars, tlsVars, apiVars, reportVars,
      scanVars,
      pathVars,
      walkVars,
      loopVars,
      traceVars,
      dumpVars,
      importVars,
      lifeVars>>

nonScanVars ==
    <<dispVars, hostVars, patchVars, tlsVars, apiVars, reportVars, leakVars,
      pathVars,
      walkVars,
      loopVars,
      traceVars,
      dumpVars,
      importVars,
      lifeVars>>

nonPathVars ==
    <<dispVars, hostVars, patchVars, tlsVars, apiVars, reportVars, leakVars,
      scanVars,
      walkVars,
      loopVars,
      traceVars,
      dumpVars,
      importVars,
      lifeVars>>

nonWalkVars ==
    <<dispVars, hostVars, patchVars, tlsVars, apiVars, reportVars, leakVars,
      scanVars,
      pathVars,
      loopVars,
      traceVars,
      dumpVars,
      importVars,
      lifeVars>>

nonLoopVars ==
    <<dispVars, hostVars, patchVars, tlsVars, apiVars, reportVars, leakVars,
      scanVars,
      pathVars,
      walkVars,
      traceVars,
      dumpVars,
      importVars,
      lifeVars>>

nonTraceVars ==
    <<dispVars, hostVars, patchVars, tlsVars, apiVars, reportVars, leakVars,
      scanVars,
      pathVars,
      walkVars,
      loopVars,
      dumpVars,
      importVars,
      lifeVars>>

nonDumpVars ==
    <<dispVars, hostVars, patchVars, tlsVars, apiVars, reportVars, leakVars,
      scanVars,
      pathVars,
      walkVars,
      loopVars,
      traceVars,
      importVars,
      lifeVars>>

nonImportVars ==
    <<dispVars, hostVars, patchVars, tlsVars, apiVars, reportVars, leakVars,
      scanVars,
      pathVars,
      walkVars,
      loopVars,
      traceVars,
      dumpVars,
      lifeVars>>

nonLifeVars ==
    <<dispVars, hostVars, patchVars, tlsVars, apiVars, reportVars, leakVars,
      scanVars,
      pathVars,
      walkVars,
      loopVars,
      traceVars,
      dumpVars,
      importVars>>

vars ==
    <<dispVars, hostVars, patchVars, tlsVars, apiVars, reportVars, leakVars,
      scanVars,
      pathVars,
      walkVars,
      loopVars,
      traceVars,
      dumpVars,
      importVars,
      lifeVars>>

(***************************************************************************)
(* Bounds.                                                                 *)
(***************************************************************************)
NumThreads == 2
MaxCalls == 3
MaxIat == 2
MaxTable == 2
MaxPatchOps == 2
MaxAllocs == 2
MaxBlocks == 4
MaxMarks == 2
MaxMessage == 515
MAXREPORTLENGTH == 5
VLD_maxtraceframes == 3
MaxScanBlocks == 3
MaxScanFrames == 2
MaxCommand == 3
MaxEnv == 2
MaxLoopFrames == 3
MaxLoopBlocks == 2
MaxAppFrames == 2
MaxTrace == 7
MaxData == 18
MaxDump == 18
MaxLifeEntries == 2

\* vld.cpp 726
MAXREPORTMESSAGESIZE == 513

Threads == 1..NumThreads

NoThread == 0

(***************************************************************************)
(* Block use types (crtdbg.h) as vld.cpp tests them.                       *)
(***************************************************************************)
NORMAL_BLOCK == "NORMAL"
CRT_BLOCK == "CRT"
VLDINTERNALBLOCK == "VLDINTERNAL"

AppUses == {NORMAL_BLOCK, CRT_BLOCK, VLDINTERNALBLOCK}

(***************************************************************************)
(* Helpers on the allocated list.                                          *)
(***************************************************************************)
LiveIds == {heap[i].lRequest : i \in 1..Len(heap)}

BlockOf(r) == CHOOSE b \in {heap[i] : i \in 1..Len(heap)} : b.lRequest = r

Unlink(h, r) == SelectSeq(h, LAMBDA b : b.lRequest # r)

Top(t) == stack[t][Len(stack[t])]

SetTop(t, f) == [stack EXCEPT ![t] = [i \in 1..Len(@) |-> IF i = Len(@) THEN f ELSE @[i]]]

\* One activation of a request.  pdata is the block a realloc works on,
\* named by the request id in its header.  path, fwd, args and old record
\* what allochook did with the event: the path it took, how often it called
\* the previous hook, with which arguments, and what that hook answered.
Frame(type, use, request, owner) ==
    [type |-> type, use |-> use, request |-> request, owner |-> owner,
     pc |-> "lock", status |-> TRUE, pair |-> 0,
     pdata |-> 0, path |-> "none", fwd |-> 0, args |-> <<>>, old |-> "none"]

Push(t, f) == [stack EXCEPT ![t] = Append(@, f)]

Idle == \A t \in Threads : stack[t] = <<>>

EmptyMap == [r \in {} |-> 0]

MapInsert(m, r, v) == [x \in DOMAIN m \cup {r} |-> IF x = r THEN v ELSE m[x]]

MapEraseNothing(m, r) == m

MapErase(m, r) == [x \in DOMAIN m \ {r} |-> m[x]]

(***************************************************************************)
(* The previously installed hook.  It may deny any request of the          *)
(* application; the requests of the detector itself it lets through.       *)
(***************************************************************************)
OldHookStatus(f) == IF f.owner = "vld" THEN {TRUE} ELSE BOOLEAN

\* The arguments of the event as allochook received them.
Args(f) == <<f.type, f.pdata, f.use, f.request>>

ForwardAnswerDropped(hook, f) ==
    IF hook = "NULL" THEN {f}
    ELSE {[f EXCEPT !.old = st, !.fwd = @ + 1, !.args = Args(f)] :
             st \in OldHookStatus(f)}

ForwardWithoutCall(hook, f) == {f}

\* vld.cpp 255-257 and 282-284: if (m_poldhook) status = m_poldhook(type,
\* pdata, size, use, request, file, line).  The activations the call can
\* leave behind.
ForwardTo(hook, f) ==
    IF hook = "NULL" THEN {f}
    ELSE {[f EXCEPT !.status = st, !.old = st, !.fwd = @ + 1,
                    !.args = Args(f)] : st \in OldHookStatus(f)}

(***************************************************************************)
(* Init: the state after VisualLeakDetector::VisualLeakDetector().  The    *)
(* block map is allocated (an internal block, request 1) before the hook   *)
(* is registered, so the hook sees no event for it.                        *)
(***************************************************************************)
\* linkdebughelplibrary, vld.cpp 648-710: the functions GetProcAddress is
\* asked for, in the order of the code.
RequiredFunctions ==
    <<"StackWalk64", "SymFunctionTableAccess64", "SymGetModuleBase64",
      "SymCleanup", "SymFromAddr", "SymGetLineFromAddr64", "SymInitialize",
      "SymSetOptions">>

RequiredNames == {RequiredFunctions[i] : i \in DOMAIN RequiredFunctions}

NoLibrary == [loaded |-> FALSE, exports |-> {}]

CompleteLibrary == [loaded |-> TRUE, exports |-> RequiredNames]

\* dbghelp.dll is absent, complete, or lacks one of the functions.
Libraries ==
    {NoLibrary, CompleteLibrary}
    \cup {[loaded |-> TRUE, exports |-> RequiredNames \ {name}] :
             name \in RequiredNames}

UnresolvedButLast(lib) ==
    {i \in DOMAIN RequiredFunctions \ {Len(RequiredFunctions)} :
        RequiredFunctions[i] \notin lib.exports}

\* The GetProcAddress calls that return NULL.
Unresolved(lib) ==
    {i \in DOMAIN RequiredFunctions : RequiredFunctions[i] \notin lib.exports}

linkdebughelplibrary(lib) ==
    IF ~lib.loaded
       THEN [status |-> FALSE, said |-> <<"ERROR: Unable to load dbghelp.dll">>]
    ELSE IF Unresolved(lib) = {}
       THEN [status |-> TRUE, said |-> <<>>]
    ELSE LET first == CHOOSE i \in Unresolved(lib) :
                          \A j \in Unresolved(lib) : i <= j
         IN  [status |-> FALSE,
              said |-> <<"ERROR: entry point not located: "
                         \o RequiredFunctions[first]>>]

Hooks == {"NULL", "oldhook"}

\* The state the constructor leaves, vld.cpp 132-150, in a process where
\* dbghelp.dll is lib and the allocation hook is hook.  m_poldhook is only
\* assigned when the hook is registered; the object has static storage, so
\* it is null until then.
Constructed(lib, hook) ==
    /\ dbghelp = lib
    /\ hook0 = hook
    /\ theirHook = "none"
    /\ m_installed = linkdebughelplibrary(lib).status
    /\ m_poldhook = IF linkdebughelplibrary(lib).status THEN hook ELSE "NULL"
    /\ pfnAllocHook = IF linkdebughelplibrary(lib).status
                      THEN "allochook" ELSE hook
    /\ diag = linkdebughelplibrary(lib).said
              \o IF linkdebughelplibrary(lib).status
                    THEN <<"installed">> ELSE <<"IS NOT installed">>
    /\ scanEv = [events |-> 0, inserted |-> {}, erased |-> {}]
    /\ inallochook = FALSE
    /\ m_mallocmap = EmptyMap
    /\ heap = <<[lRequest |-> 1, nBlockUse |-> VLDINTERNALBLOCK, by |-> "vld"]>>
    /\ lRequestCurr = 2
    /\ heapLock = [owner |-> NoThread, count |-> 0]
    /\ stack = [t \in Threads |-> <<>>]
    /\ phase = "running"
    /\ leaks = <<>>
    /\ allocEv = {}
    /\ freeEv = {}
    /\ trackedEv = {}
    /\ deniedEv = {}
    /\ calls = 0

\* The dispatcher runs start with dbghelp.dll complete or absent.
DispInit ==
    \E lib \in {NoLibrary, CompleteLibrary} : \E hook \in Hooks :
        Constructed(lib, hook)

\* The import patcher at rest, for the runs that are about the dispatcher.
PatchIdle ==
    /\ idt = [present |-> FALSE, descs |-> <<>>]
    /\ patchtable = <<>>
    /\ asserts = TRUE
    /\ aborted = FALSE
    /\ idt0 = idt
    /\ idtPrev = idt
    /\ ops = <<>>

TlsInit ==
    /\ tlsSlot = [t \in Threads |-> 0]
    /\ s_inVldCall = [t \in Threads |-> 0]
    /\ m_tlsLock = [owner |-> NoThread, count |-> 0]
    /\ m_tlsMap = {}
    /\ nextTls = 1
    /\ tlsStack = [t \in Threads |-> <<>>]
    /\ tlsCreated = [t \in Threads |-> 0]
    /\ observed = [t \in Threads |-> 0]

ApiInit ==
    /\ ledger = EmptyMap
    /\ apiLog = EmptyMap
    /\ apiFreed = {}
    /\ epoch = 0

\* No call of report() is looked at.
ReportIdle ==
    /\ reportCall = [sink |-> "vld", natural |-> 0, unicode |-> FALSE,
                     convertible |-> TRUE]
    /\ message = <<>>
    /\ debugOut = [outcome |-> "none", len |-> 0]
    /\ returned = FALSE

LeakIdle ==
    /\ callstack = <<>>
    /\ rl = [pc |-> "idle", frame |-> 0, symbols |-> TRUE, leaksfound |-> 0,
             shown |-> 0, summary |-> FALSE, cleanup |-> FALSE]

ScanIdle ==
    /\ scanList = <<>>
    /\ scanMap = EmptyMap
    /\ sc = [pc |-> "idle", pos |-> 0, frame |-> 0, leaksfound |-> 0,
             headers |-> <<>>, FileName |-> "NULL",
             last |-> [lineok |-> TRUE, form |-> "none"], summary |-> <<>>]

PathIdle ==
    /\ command = <<>>
    /\ environment = [SYSTEMROOT |-> [set |-> FALSE, value |-> <<>>],
                      NT_SYMBOL_PATH |-> [set |-> FALSE, value |-> <<>>],
                      NT_ALT_SYMBOL_PATH |-> [set |-> FALSE, value |-> <<>>]]
    /\ m_symbolpath = <<>>

WalkIdle ==
    wk = [pc |-> "idle", list |-> <<>>, map |-> EmptyMap, before |-> <<>>,
          pheap |-> 0, pheader |-> 0, visited |-> <<>>, maxdatadump |-> 0]

LoopIdle ==
    fl = [pc |-> "idle", showuselessframes |-> FALSE, frame |-> 0, block |-> 0,
          sourceinfo |-> [set |-> FALSE, file |-> "NULL", of |-> 0], out |-> <<>>]

TraceIdle ==
    tr = [pc |-> "idle", maxtraceframes |-> 0, thread |-> <<>>, count |-> 0,
          steps |-> <<>>, callstack |-> <<>>]

DumpIdle ==
    du = [pc |-> "idle", fn |-> "none", maxdatadump |-> 0, data |-> <<>>,
          datalen |-> 0, dumplen |-> 0, byte |-> 0, bytesdone |-> 0,
          hexdump |-> <<>>, ascdump |-> <<>>, reads |-> <<>>, out |-> <<>>,
          inside |-> TRUE]

NoEntry == [exportmodulename |-> "", importname |-> "", replacement |-> 0]

ImportIdle ==
    im = [pc |-> "idle", fn |-> "none", entry |-> NoEntry, asserts |-> FALSE,
          idt |-> [present |-> FALSE, descs |-> <<>>],
          before |-> [present |-> FALSE, descs |-> <<>>],
          prot |-> <<>>, protBefore |-> <<>>, protect |-> "uninitialized",
          k |-> 0, i |-> 0, writes |-> <<>>]

LifeIdle ==
    lc = [pc |-> "idle", linked |-> FALSE, env |-> {}, m_installed |-> FALSE,
          m_mallocmap |-> 0, m_symbolpath |-> 0, path |-> 0, entries |-> 0,
          strapps |-> 0, next |-> 1, held |-> {}, released |-> <<>>]

Init ==
    DispInit /\ PatchIdle /\ TlsInit /\ ApiInit /\ ReportIdle /\ LeakIdle /\ ScanIdle /\ PathIdle /\ WalkIdle /\ LoopIdle /\ TraceIdle /\ DumpIdle /\ ImportIdle /\ LifeIdle

(***************************************************************************)
(* The application calls malloc or free.  The call first waits for the     *)
(* lock of the debug heap.                                                 *)
(***************************************************************************)
CallMalloc(t, use) ==
    /\ phase = "running"
    /\ stack[t] = <<>>
    /\ calls < MaxCalls
    /\ calls' = calls + 1
    /\ stack' = Push(t, Frame("ALLOC", use, 0, "app"))
    /\ UNCHANGED <<diag, scanEv, m_installed, m_poldhook, pfnAllocHook, inallochook, m_mallocmap,
                   heap, lRequestCurr, heapLock, phase, leaks,
                   allocEv, freeEv, trackedEv, deniedEv>>
    /\ UNCHANGED nonDispVars

BeingFreed ==
    UNION {{stack[u][i].request : i \in 1..Len(stack[u])}
           \cup {stack[u][i].pdata : i \in 1..Len(stack[u])} : u \in Threads}

CallFree(t, r) ==
    /\ phase = "running"
    /\ stack[t] = <<>>
    /\ calls < MaxCalls
    /\ r \in LiveIds \ BeingFreed
    /\ BlockOf(r).by = "app"
    /\ calls' = calls + 1
    /\ stack' = Push(t, Frame("FREE", BlockOf(r).nBlockUse, r, "app"))
    /\ UNCHANGED <<diag, scanEv, m_installed, m_poldhook, pfnAllocHook, inallochook, m_mallocmap,
                   heap, lRequestCurr, heapLock, phase, leaks,
                   allocEv, freeEv, trackedEv, deniedEv>>
    /\ UNCHANGED nonDispVars

(***************************************************************************)
(* The debug heap: take the heap lock (a critical section: the owner may   *)
(* take it again), give an allocation its request number, call the hook    *)
(* that is installed.                                                      *)
(***************************************************************************)
\* A debug heap that calls the hook without holding its lock.
HeapLockAlwaysFree(t) == TRUE

\* 204-206: the debug heap is locked before the hook is called.
HeapLockFree(t) == heapLock.owner \in {NoThread, t}

\* The hook the debug heap calls hands the event to allochook: it is
\* allochook, or the hook of a third party that calls the hook it replaced.
ReachesAllochook ==
    \/ pfnAllocHook = "allochook"
    \/ pfnAllocHook = "theirs" /\ theirHook = "chaining"

EnterHeap(t) ==
    /\ stack[t] # <<>>
    /\ Top(t).pc = "lock"
    /\ HeapLockFree(t)
    /\ heapLock' = [owner |-> t, count |-> heapLock.count + 1]
    /\ LET f == Top(t)
           r == IF f.type \in {"ALLOC", "REALLOC"} THEN lRequestCurr ELSE f.request
           g == [f EXCEPT !.request = r]
       IN  /\ lRequestCurr' = IF f.type \in {"ALLOC", "REALLOC"}
                              THEN lRequestCurr + 1 ELSE lRequestCurr
           /\ IF ReachesAllochook
              THEN /\ stack' = SetTop(t, [g EXCEPT !.pc = "hook"])
                   /\ allocEv' = IF f.type = "ALLOC" /\ f.owner = "app"
                                 THEN allocEv \cup {[id |-> r, use |-> f.use]}
                                 ELSE allocEv
                   /\ freeEv' = IF f.type = "FREE" /\ f.owner = "app"
                                THEN freeEv \cup {r} ELSE freeEv
              ELSE /\ \E st \in OldHookStatus(f) :
                        stack' = SetTop(t, [g EXCEPT !.pc = "crt",
                                   !.status = IF pfnAllocHook = "NULL" THEN TRUE ELSE st])
                   /\ UNCHANGED <<allocEv, freeEv>>
    /\ UNCHANGED <<diag, scanEv, m_installed, m_poldhook, pfnAllocHook, inallochook, m_mallocmap,
                   heap, phase, leaks, trackedEv, deniedEv, calls>>
    /\ UNCHANGED nonDispVars

(***************************************************************************)
(* allochook, vld.cpp 247-287.                                             *)
(***************************************************************************)
SkipOnlyCrt(f) == f.use = CRT_BLOCK

SkipTracking(f) == inallochook \/ f.use = CRT_BLOCK

\* 252-260: the event is re-entrant or internal to the CRT: forward and return.
SkipPath(t) ==
    /\ stack[t] # <<>>
    /\ Top(t).pc = "hook"
    /\ SkipTracking(Top(t))
    /\ \E g \in ForwardTo(m_poldhook, Top(t)) :
         stack' = SetTop(t, [g EXCEPT !.pc = "crt", !.path = "skip"])
    /\ UNCHANGED <<diag, scanEv, m_installed, m_poldhook, pfnAllocHook, inallochook, m_mallocmap,
                   heap, lRequestCurr, heapLock, phase, leaks,
                   allocEv, freeEv, trackedEv, deniedEv, calls>>
    /\ UNCHANGED nonDispVars

\* An event of a type the switch has no case for ends the call at once.
HandlerOfUnhandledReturns(type) ==
    IF type = "ALLOC" THEN "hookmalloc"
    ELSE IF type = "FREE" THEN "hookfree"
    ELSE IF type = "REALLOC" THEN "hookrealloc"
    ELSE "crt"

\* 264-280: the switch on the type of the event.
HandlerOf(type) ==
    IF type = "ALLOC" THEN "hookmalloc"
    ELSE IF type = "FREE" THEN "hookfree"
    ELSE IF type = "REALLOC" THEN "hookrealloc"
    ELSE "default"

\* Every handler works on the request number of the event.
KeyIsRequest(f) == f.request

\* The request id the handlers work on: hookmalloc gets the request of the
\* event, hookfree and hookrealloc read pHdr(pdata)->lRequest, and
\* hookrealloc passes that on to hookmalloc (625-627).
Key(f) == IF f.type = "REALLOC" THEN f.pdata ELSE f.request

\* 261-275: set the guard, then go to the handler of the event.
TrackEnter(t) ==
    /\ stack[t] # <<>>
    /\ Top(t).pc = "hook"
    /\ ~SkipTracking(Top(t))
    /\ inallochook' = TRUE
    /\ stack' = SetTop(t, [Top(t) EXCEPT !.pc = HandlerOf(Top(t).type),
                                         !.path = "track"])
    /\ trackedEv' = IF Top(t).type = "ALLOC"
                    THEN trackedEv \cup {Top(t).request} ELSE trackedEv
    /\ UNCHANGED <<diag, scanEv, m_installed, m_poldhook, pfnAllocHook, m_mallocmap,
                   heap, lRequestCurr, heapLock, phase, leaks,
                   allocEv, freeEv, deniedEv, calls>>
    /\ UNCHANGED nonDispVars

\* 602: make_pair allocates the Pair from the heap.
HookMallocMakePair(t) ==
    /\ stack[t] # <<>>
    /\ Top(t).pc = "hookmalloc"
    /\ lRequestCurr <= 2 * MaxCalls + 2
    /\ stack' = [SetTop(t, [Top(t) EXCEPT !.pc = "insert"]) EXCEPT
                   ![t] = Append(@, Frame("ALLOC", VLDINTERNALBLOCK, 0, "vld"))]
    /\ UNCHANGED <<diag, scanEv, m_installed, m_poldhook, pfnAllocHook, inallochook, m_mallocmap,
                   heap, lRequestCurr, heapLock, phase, leaks,
                   allocEv, freeEv, trackedEv, deniedEv, calls>>
    /\ UNCHANGED nonDispVars

\* 604-605: trace the stack into the Pair and insert it under the request id.
HookMallocInsert(t) ==
    /\ stack[t] # <<>>
    /\ Top(t).pc = "insert"
    /\ m_mallocmap' = MapInsert(m_mallocmap, Key(Top(t)), [pair |-> Top(t).pair])
    /\ stack' = SetTop(t, [Top(t) EXCEPT !.pc = "forward"])
    /\ UNCHANGED <<diag, scanEv, m_installed, m_poldhook, pfnAllocHook, inallochook,
                   heap, lRequestCurr, heapLock, phase, leaks,
                   allocEv, freeEv, trackedEv, deniedEv, calls>>
    /\ UNCHANGED nonDispVars

\* 579-584: erase the request id of the block; the erased Pair is freed.
\* hookrealloc (621-628) does the same and goes on to hookmalloc.
HookFree(t) ==
    /\ stack[t] # <<>>
    /\ Top(t).pc \in {"hookfree", "hookrealloc"}
    /\ LET request == Key(Top(t))
           then == IF Top(t).pc = "hookfree" THEN "forward" ELSE "hookmalloc"
       IN  /\ m_mallocmap' = MapErase(m_mallocmap, request)
           /\ stack' = IF request \in DOMAIN m_mallocmap
                       THEN [SetTop(t, [Top(t) EXCEPT !.pc = then]) EXCEPT
                               ![t] = Append(@, Frame("FREE", VLDINTERNALBLOCK,
                                                      m_mallocmap[request].pair, "vld"))]
                       ELSE SetTop(t, [Top(t) EXCEPT !.pc = then])
    /\ UNCHANGED <<diag, scanEv, m_installed, m_poldhook, pfnAllocHook, inallochook,
                   heap, lRequestCurr, heapLock, phase, leaks,
                   allocEv, freeEv, trackedEv, deniedEv, calls>>
    /\ UNCHANGED nonDispVars

\* 282-284: forward the event to the previously installed hook.
Forward(t) ==
    /\ stack[t] # <<>>
    /\ Top(t).pc = "forward"
    /\ \E g \in ForwardTo(m_poldhook, Top(t)) :
         stack' = SetTop(t, [g EXCEPT !.pc = "clear"])
    /\ UNCHANGED <<diag, scanEv, m_installed, m_poldhook, pfnAllocHook, inallochook, m_mallocmap,
                   heap, lRequestCurr, heapLock, phase, leaks,
                   allocEv, freeEv, trackedEv, deniedEv, calls>>
    /\ UNCHANGED nonDispVars

\* 285-286: clear the guard and return the status.
ClearGuard(t) ==
    /\ stack[t] # <<>>
    /\ Top(t).pc = "clear"
    /\ inallochook' = FALSE
    /\ stack' = SetTop(t, [Top(t) EXCEPT !.pc = "crt"])
    /\ UNCHANGED <<diag, scanEv, m_installed, m_poldhook, pfnAllocHook, m_mallocmap,
                   heap, lRequestCurr, heapLock, phase, leaks,
                   allocEv, freeEv, trackedEv, deniedEv, calls>>
    /\ UNCHANGED nonDispVars

(***************************************************************************)
(* Back in the debug heap: with status true the block is linked at the     *)
(* head of the list (or unlinked), with status false the request is        *)
(* denied.  The lock is given back and the call returns; a Pair's block is *)
(* handed to the handler that asked for it.                                *)
(***************************************************************************)
LeaveHeap(t) ==
    /\ stack[t] # <<>>
    /\ Top(t).pc = "crt"
    /\ LET f == Top(t)
           n == Len(stack[t])
       IN  /\ heap' = IF ~f.status THEN heap
                      ELSE IF f.type = "ALLOC"
                           THEN <<[lRequest |-> f.request, nBlockUse |-> f.use,
                                   by |-> f.owner]>> \o heap
                      ELSE IF f.type = "FREE"
                           THEN Unlink(heap, f.request)
                      ELSE IF f.type = "REALLOC"
                           THEN <<[lRequest |-> f.request, nBlockUse |-> f.use,
                                   by |-> f.owner]>> \o Unlink(heap, f.pdata)
                      ELSE heap
           /\ deniedEv' = IF f.status THEN deniedEv ELSE deniedEv \cup {f.request}
           /\ stack' = [stack EXCEPT ![t] =
                          [i \in 1..(n - 1) |->
                             IF i = n - 1 /\ f.type = "ALLOC" /\ f.owner = "vld"
                             THEN [@[i] EXCEPT !.pair = f.request] ELSE @[i]]]
    /\ heapLock' = IF heapLock.count = 1
                   THEN [owner |-> NoThread, count |-> 0]
                   ELSE [heapLock EXCEPT !.count = @ - 1]
    /\ UNCHANGED <<diag, scanEv, m_installed, m_poldhook, pfnAllocHook, inallochook, m_mallocmap,
                   lRequestCurr, phase, leaks,
                   allocEv, freeEv, trackedEv, calls>>
    /\ UNCHANGED nonDispVars

(***************************************************************************)
(* reportleaks, vld.cpp 759-882: the walk of the allocated list.           *)
(***************************************************************************)
\* A scan that takes no block for the detector's own.
IsInternalNever(b) == FALSE

\* 803: a block of the detector itself.
IsInternal(b) == b.nBlockUse = VLDINTERNALBLOCK

\* 808-809: a block whose request id the block map holds is a leak.
IsLeak(b, map) == ~IsInternal(b) /\ b.lRequest \in DOMAIN map

\* 799-801: the block after the throwaway block, which is the head.
ScanStart(h, throwaway) == Tail(<<throwaway>> \o h)

RECURSIVE Walk(_, _)
Walk(h, map) ==
    IF h = <<>> THEN <<>>
    ELSE IF IsLeak(Head(h), map)
         THEN <<Head(h).lRequest>> \o Walk(Tail(h), map)
         ELSE Walk(Tail(h), map)

LeakScan(h, map) ==
    Walk(ScanStart(h, [lRequest |-> lRequestCurr, nBlockUse |-> VLDINTERNALBLOCK,
                       by |-> "vld"]), map)

(***************************************************************************)
(* ~VisualLeakDetector, vld.cpp 154-197.                                   *)
(***************************************************************************)
\* 160-169: deregister the hook; a hook somebody else installed is put back.
HookAfterDetachIsOld(pprevhook, old) == old

\* 162-166: _CrtSetAllocHook(m_poldhook) returns the hook that was
\* installed; if that is not allochook it is installed again.
HookAfterDetach(pprevhook, old) ==
    IF pprevhook # "allochook" THEN pprevhook ELSE old

Detach ==
    /\ phase = "running"
    /\ Idle
    /\ IF m_installed
       THEN /\ pfnAllocHook' = HookAfterDetach(pfnAllocHook, m_poldhook)
            /\ diag' = IF pfnAllocHook # "allochook"
                       THEN Append(diag, "WARNING: unhooked prematurely")
                       ELSE diag
            /\ phase' = "detached"
       ELSE /\ phase' = "exited"
            /\ UNCHANGED <<pfnAllocHook, diag>>
    /\ UNCHANGED <<scanEv, m_installed, m_poldhook, inallochook, m_mallocmap,
                   heap, lRequestCurr, heapLock, stack, leaks,
                   allocEv, freeEv, trackedEv, deniedEv, calls>>
    /\ UNCHANGED nonDispVars

\* 172: reportleaks().
\* The throwaway block is allocated and freed through the debug heap
\* (799-801).  If the installed hook hands events to allochook, allochook
\* gets both: the guard is clear, so it inserts the request with a Pair of
\* its own and erases it again.
ReportLeaks ==
    /\ phase = "detached"
    /\ leaks' = LeakScan(heap, m_mallocmap)
    /\ IF ReachesAllochook
       THEN /\ scanEv' = [events |-> scanEv.events + 2,
                          inserted |-> scanEv.inserted \cup {lRequestCurr},
                          erased |-> scanEv.erased \cup {lRequestCurr}]
            /\ lRequestCurr' = lRequestCurr + 2
       ELSE /\ lRequestCurr' = lRequestCurr + 1
            /\ UNCHANGED scanEv
    /\ phase' = "reported"
    /\ UNCHANGED <<diag, m_installed, m_poldhook, pfnAllocHook, inallochook, m_mallocmap,
                   heap, heapLock, stack,
                   allocEv, freeEv, trackedEv, deniedEv, calls>>
    /\ UNCHANGED nonDispVars

ThreadStep(t) ==
    \/ \E use \in AppUses : CallMalloc(t, use)
    \/ \E r \in LiveIds : CallFree(t, r)
    \/ EnterHeap(t)
    \/ SkipPath(t)
    \/ TrackEnter(t)
    \/ HookMallocMakePair(t)
    \/ HookMallocInsert(t)
    \/ HookFree(t)
    \/ Forward(t)
    \/ ClearGuard(t)
    \/ LeaveHeap(t)

Next ==
    \/ \E t \in Threads : ThreadStep(t)
    \/ Detach
    \/ ReportLeaks

Spec == Init /\ [][Next]_vars

(***************************************************************************)
(* A thread that is inside a call goes on: nothing in the engine suspends. *)
(***************************************************************************)
Progress(t) ==
    \/ EnterHeap(t)
    \/ SkipPath(t)
    \/ TrackEnter(t)
    \/ HookMallocMakePair(t)
    \/ HookMallocInsert(t)
    \/ HookFree(t)
    \/ Forward(t)
    \/ ClearGuard(t)
    \/ LeaveHeap(t)

FairSpec == Spec /\ \A t \in Threads : WF_vars(Progress(t))

(***************************************************************************)
(* The application calls realloc on a block it owns: the third kind of     *)
(* event the debug heap sends to the hook.                                 *)
(***************************************************************************)
CallRealloc(t, r) ==
    /\ phase = "running"
    /\ stack[t] = <<>>
    /\ calls < MaxCalls
    /\ r \in LiveIds \ BeingFreed
    /\ BlockOf(r).by = "app"
    /\ calls' = calls + 1
    /\ stack' = Push(t, [Frame("REALLOC", BlockOf(r).nBlockUse, 0, "app")
                            EXCEPT !.pdata = r])
    /\ UNCHANGED <<diag, scanEv, m_installed, m_poldhook, pfnAllocHook, inallochook, m_mallocmap,
                   heap, lRequestCurr, heapLock, phase, leaks,
                   allocEv, freeEv, trackedEv, deniedEv>>
    /\ UNCHANGED nonDispVars

(***************************************************************************)
(* The constructor with every dbghelp.dll the process can have.            *)
(***************************************************************************)
LinkInit == \E lib \in Libraries : \E hook \in Hooks : Constructed(lib, hook)

InitLink ==
    LinkInit /\ PatchIdle /\ TlsInit /\ ApiInit /\ ReportIdle /\ LeakIdle /\ ScanIdle /\ PathIdle /\ WalkIdle /\ LoopIdle /\ TraceIdle /\ DumpIdle /\ ImportIdle /\ LifeIdle

SpecLink == InitLink /\ [][Next]_vars

(***************************************************************************)
(* A third party calls _CrtSetAllocHook while the detector is installed.   *)
(* Its hook either handles the events alone or calls the hook it replaced. *)
(***************************************************************************)
ThirdPartyKinds == {"replacing", "chaining"}

ThirdPartyInstall(kind) ==
    /\ phase = "running"
    /\ pfnAllocHook = "allochook"
    /\ theirHook = "none"
    /\ theirHook' = kind
    /\ pfnAllocHook' = "theirs"
    /\ UNCHANGED <<diag, scanEv, m_installed, m_poldhook, inallochook, m_mallocmap,
                   heap, lRequestCurr, heapLock, stack, phase, leaks,
                   allocEv, freeEv, trackedEv, deniedEv, calls>>
    /\ UNCHANGED <<dbghelp, hook0>>
    /\ UNCHANGED <<patchVars, tlsVars, apiVars, reportVars, leakVars,
                   scanVars,
                   pathVars,
                   walkVars,
                   loopVars,
                   traceVars,
                   dumpVars,
                   importVars,
                   lifeVars>>

HookNext ==
    \/ Next
    \/ \E kind \in ThirdPartyKinds : ThirdPartyInstall(kind)

SpecHook == Init /\ [][HookNext]_vars

EventNext ==
    \/ Next
    \/ \E t \in Threads : \E r \in LiveIds : CallRealloc(t, r)

SpecEvents == Init /\ [][EventNext]_vars

(***************************************************************************)
(* A previously installed hook that allocates from the debug heap while    *)
(* it handles an event allochook forwards to it at 282-284.  The request   *)
(* comes back into the installed hook on the same thread, inside the call  *)
(* of m_poldhook.                                                          *)
(***************************************************************************)
\* 283: m_poldhook(...) is entered and calls malloc.
OldHookMalloc(t) ==
    /\ stack[t] # <<>>
    /\ Top(t).pc = "forward"
    /\ m_poldhook # "NULL"
    /\ lRequestCurr <= 2 * MaxCalls + 2
    /\ stack' = [SetTop(t, [Top(t) EXCEPT !.pc = "oldhook"]) EXCEPT
                   ![t] = Append(@, Frame("ALLOC", NORMAL_BLOCK, 0, "oldhook"))]
    /\ UNCHANGED <<diag, scanEv, m_installed, m_poldhook, pfnAllocHook, inallochook, m_mallocmap,
                   heap, lRequestCurr, heapLock, phase, leaks,
                   allocEv, freeEv, trackedEv, deniedEv, calls>>
    /\ UNCHANGED nonDispVars

\* 283-284: m_poldhook(...) returns its answer after its malloc came back.
OldHookReturn(t) ==
    /\ stack[t] # <<>>
    /\ Top(t).pc = "oldhook"
    /\ \E g \in ForwardTo(m_poldhook, Top(t)) :
         stack' = SetTop(t, [g EXCEPT !.pc = "clear"])
    /\ UNCHANGED <<diag, scanEv, m_installed, m_poldhook, pfnAllocHook, inallochook, m_mallocmap,
                   heap, lRequestCurr, heapLock, phase, leaks,
                   allocEv, freeEv, trackedEv, deniedEv, calls>>
    /\ UNCHANGED nonDispVars

ChainNext ==
    \/ EventNext
    \/ \E t \in Threads : OldHookMalloc(t)
    \/ \E t \in Threads : OldHookReturn(t)

SpecChain == Init /\ [][ChainNext]_vars

(***************************************************************************)
(* The debug heap sends the hook an event whose type is none of            *)
(* _HOOK_ALLOC, _HOOK_REALLOC and _HOOK_FREE.  The heap itself does        *)
(* nothing for it.                                                         *)
(***************************************************************************)
HOOK_OTHER == "OTHER"

CallUnhandled(t) ==
    /\ phase = "running"
    /\ stack[t] = <<>>
    /\ calls < MaxCalls
    /\ calls' = calls + 1
    /\ stack' = Push(t, Frame(HOOK_OTHER, NORMAL_BLOCK, 0, "app"))
    /\ UNCHANGED <<diag, scanEv, m_installed, m_poldhook, pfnAllocHook, inallochook, m_mallocmap,
                   heap, lRequestCurr, heapLock, phase, leaks,
                   allocEv, freeEv, trackedEv, deniedEv>>
    /\ UNCHANGED nonDispVars

\* 277-279: default: report the unhandled type and go on to the forwarding.
UnhandledType(t) ==
    /\ stack[t] # <<>>
    /\ Top(t).pc = "default"
    /\ diag' = Append(diag, "WARNING: unhandled allocation type")
    /\ stack' = SetTop(t, [Top(t) EXCEPT !.pc = "forward"])
    /\ UNCHANGED <<scanEv, m_installed, m_poldhook, pfnAllocHook, inallochook, m_mallocmap,
                   heap, lRequestCurr, heapLock, phase, leaks,
                   allocEv, freeEv, trackedEv, deniedEv, calls>>
    /\ UNCHANGED nonDispVars

KindNext ==
    \/ EventNext
    \/ \E t \in Threads : CallUnhandled(t)
    \/ \E t \in Threads : UnhandledType(t)

SpecKinds == Init /\ [][KindNext]_vars

(***************************************************************************)
(* The import patcher, utility.cpp 251-343 and 418-508.                    *)
(*                                                                         *)
(* Addresses are numbers, 0 is NULL and ends an import address table.  An  *)
(* exporting module may export one address under two names ("free" and     *)
(* "delete" below).  The loader fills each import address table with the   *)
(* addresses of the names the module imports.                              *)
(***************************************************************************)
ExportTable ==
    [crt |-> [malloc |-> 11, free |-> 12, delete |-> 12],
     k32 |-> [HeapAlloc |-> 13]]

Replacements == {21, 22}

\* The names under which import descriptors and patch tables name a module.
ModuleOf(name) == IF name \in {"crt.dll", "CRT.DLL"} THEN "crt" ELSE "k32"

\* _stricmp(a, b) == 0
StrICmpEqual(a, b) == ModuleOf(a) = ModuleOf(b)

\* GetProcAddress(GetModuleHandleA(exportmodulename), importname); NULL when
\* the module does not export the name.
GetProcAddress(exportmodulename, importname) ==
    LET exports == ExportTable[ModuleOf(exportmodulename)]
    IN  IF importname \in DOMAIN exports THEN exports[importname] ELSE 0

\* The first descriptor of the directory, whatever its name.
FindDescriptorAny(descs, exportmodulename, k) ==
    IF descs = <<>> THEN 0 ELSE 1

\* 270-281: the first descriptor named like the exporting module, 0 if none.
RECURSIVE FindDescriptor(_, _, _)
FindDescriptor(descs, exportmodulename, k) ==
    IF k > Len(descs) THEN 0
    ELSE IF StrICmpEqual(descs[k].Name, exportmodulename) THEN k
         ELSE FindDescriptor(descs, exportmodulename, k + 1)

\* A scan that settles on the first entry when no entry holds `key`.
FindEntryOrFirst(iat, key, i) ==
    IF \E j \in 1..Len(iat) : iat[j] = key
       THEN CHOOSE j \in 1..Len(iat) :
                iat[j] = key /\ \A m \in 1..(j - 1) : iat[m] # key
       ELSE 1

\* 292-304: the first entry before the terminator that holds `key`, 0 if none.
RECURSIVE FindEntry(_, _, _)
FindEntry(iat, key, i) ==
    IF i > Len(iat) \/ iat[i] = 0 THEN 0
    ELSE IF iat[i] = key THEN i
         ELSE FindEntry(iat, key, i + 1)

WriteEntry(d, k, i, value) ==
    [d EXCEPT !.descs[k].iat[i] = value]

\* One call: what the import directory is afterwards and whether an
\* assertion failed.  `key` is the address searched, `value` the one written.
Outcome(d, failed) == [idt |-> d, aborted |-> failed]

PatchOrRestore(d, entry, restoring) ==
    IF ~d.present THEN Outcome(d, FALSE)
    ELSE LET k == FindDescriptor(d.descs, entry.exportmodulename, 1)
         IN  IF k = 0 THEN Outcome(d, FALSE)
             ELSE LET import == GetProcAddress(entry.exportmodulename, entry.importname)
                      key == IF restoring THEN entry.replacement ELSE import
                      value == IF restoring THEN import ELSE entry.replacement
                      i == FindEntry(d.descs[k].iat, key, 1)
                  IN  IF import = 0 /\ asserts THEN Outcome(d, TRUE)
                      ELSE IF i = 0 THEN Outcome(d, FALSE)
                           ELSE Outcome(WriteEntry(d, k, i, value), FALSE)

\* patchimport, 251-305.
patchimport(d, entry) == PatchOrRestore(d, entry, FALSE)

\* restoreimport, 418-471.
restoreimport(d, entry) == PatchOrRestore(d, entry, TRUE)

\* patchmodule, 326-343: every entry of the table in turn; a failed
\* assertion ends the process.
RECURSIVE patchmodule(_, _, _)
patchmodule(d, table, index) ==
    IF index > Len(table) THEN Outcome(d, FALSE)
    ELSE LET r == patchimport(d, table[index])
         IN  IF r.aborted THEN r ELSE patchmodule(r.idt, table, index + 1)

\* restoremodule, 491-508.
RECURSIVE restoremodule(_, _, _)
restoremodule(d, table, index) ==
    IF index > Len(table) THEN Outcome(d, FALSE)
    ELSE LET r == restoreimport(d, table[index])
         IN  IF r.aborted THEN r ELSE restoremodule(r.idt, table, index + 1)

(***************************************************************************)
(* The modules and tables the patcher is run on.                           *)
(***************************************************************************)
DistinctSeqs(S, n) ==
    UNION {{q \in [1..m -> S] : \A i, j \in 1..m : i # j => q[i] # q[j]} : m \in 1..n}

Loaded(Name, names) ==
    [Name |-> Name, names |-> names,
     iat |-> [i \in 1..Len(names) |-> GetProcAddress(Name, names[i])]]

Descriptors(Name) ==
    {Loaded(Name, names) :
       names \in DistinctSeqs(DOMAIN ExportTable[ModuleOf(Name)], MaxIat)}

ImportDirectories ==
    {[present |-> FALSE, descs |-> <<>>], [present |-> TRUE, descs |-> <<>>]}
    \cup {[present |-> TRUE, descs |-> <<c>>] : c \in Descriptors("CRT.DLL")}
    \cup {[present |-> TRUE, descs |-> <<k>>] : k \in Descriptors("k32.dll")}
    \cup {[present |-> TRUE, descs |-> <<c, k>>] :
            c \in Descriptors("CRT.DLL"), k \in Descriptors("k32.dll")}
    \cup {[present |-> TRUE, descs |-> <<k, c>>] :
            c \in Descriptors("CRT.DLL"), k \in Descriptors("k32.dll")}

PatchEntries ==
    {[exportmodulename |-> m, importname |-> n, replacement |-> r] :
       m \in {"crt.dll", "k32.dll"},
       n \in {"malloc", "free", "delete", "HeapAlloc"},
       r \in Replacements}

PatchTables == UNION {[1..n -> PatchEntries] : n \in 1..MaxTable}

PatchInit ==
    /\ idt \in ImportDirectories
    /\ patchtable \in PatchTables
    /\ asserts \in BOOLEAN
    /\ aborted = FALSE
    /\ idt0 = idt
    /\ idtPrev = idt
    /\ ops = <<>>

\* The dispatcher at rest, for the runs that are about the patcher.
DispIdle ==
    /\ DispInit
    /\ m_installed
    /\ m_poldhook = "NULL"

PatchModule ==
    /\ ~aborted
    /\ Len(ops) < MaxPatchOps
    /\ LET r == patchmodule(idt, patchtable, 1)
       IN  /\ idt' = r.idt
           /\ aborted' = r.aborted
    /\ idtPrev' = idt
    /\ ops' = Append(ops, "patch")
    /\ UNCHANGED <<patchtable, asserts, idt0>>
    /\ UNCHANGED nonPatchVars

RestoreModule ==
    /\ ~aborted
    /\ Len(ops) < MaxPatchOps
    /\ LET r == restoremodule(idt, patchtable, 1)
       IN  /\ idt' = r.idt
           /\ aborted' = r.aborted
    /\ idtPrev' = idt
    /\ ops' = Append(ops, "restore")
    /\ UNCHANGED <<patchtable, asserts, idt0>>
    /\ UNCHANGED nonPatchVars

PatchNext == PatchModule \/ RestoreModule

InitPatch ==
    DispIdle /\ PatchInit /\ TlsInit /\ ApiInit /\ ReportIdle /\ LeakIdle /\ ScanIdle /\ PathIdle /\ WalkIdle /\ LoopIdle /\ TraceIdle /\ DumpIdle /\ ImportIdle /\ LifeIdle

SpecPatch == InitPatch /\ [][PatchNext]_vars

(***************************************************************************)
(* The per-thread state of the later VLD, as the specification and the     *)
(* header of tests/tls_init_test describe it: getTls() creates a thread's  *)
(* tls_t on the thread's first allocation, with s_inVldCall raised before  *)
(* the tls_t is allocated, and registers it under a recursive lock.        *)
(***************************************************************************)
TlsTop(t) == tlsStack[t][Len(tlsStack[t])]

TlsSetPc(t, pc) ==
    [tlsStack EXCEPT ![t] = [i \in 1..Len(@) |->
                               IF i = Len(@) THEN [@[i] EXCEPT !.pc = pc] ELSE @[i]]]

TlsPop(t) == [tlsStack EXCEPT ![t] = SubSeq(@, 1, Len(@) - 1)]

TlsAt(t, pc) == tlsStack[t] # <<>> /\ TlsTop(t).pc = pc

\* The slot of thread-local storage thread t reads and writes.
TlsSlotOf(t) == t

LockNeverHeld(t) == TRUE

\* A recursive lock: free, or held by the thread itself.
TlsLockFree(t) == m_tlsLock.owner \in {NoThread, t}

\* The application's thread calls malloc.
TlsCallMalloc(t) ==
    /\ tlsStack[t] = <<>>
    /\ observed[t] < MaxAllocs
    /\ tlsStack' = [tlsStack EXCEPT ![t] = <<[pc |-> "entry", snap |-> {}]>>]
    /\ UNCHANGED <<tlsSlot, s_inVldCall, m_tlsLock, m_tlsMap, nextTls,
                   tlsCreated, observed>>
    /\ UNCHANGED nonTlsVars

\* The allocation patch: inside VLD already, skip tracking and return.
RtlAllocateHeap(t) ==
    /\ TlsAt(t, "entry")
    /\ IF s_inVldCall[TlsSlotOf(t)] > 0
          THEN tlsStack' = TlsPop(t)
          ELSE tlsStack' = TlsSetPc(t, "getTls")
    /\ UNCHANGED <<tlsSlot, s_inVldCall, m_tlsLock, m_tlsMap, nextTls,
                   tlsCreated, observed>>
    /\ UNCHANGED nonTlsVars

\* getTls(): the thread's record if it has one, else create it.
getTls(t) ==
    /\ TlsAt(t, "getTls")
    /\ IF tlsSlot[TlsSlotOf(t)] # 0
          THEN tlsStack' = TlsSetPc(t, "track")
          ELSE tlsStack' = TlsSetPc(t, "lock")
    /\ UNCHANGED <<tlsSlot, s_inVldCall, m_tlsLock, m_tlsMap, nextTls,
                   tlsCreated, observed>>
    /\ UNCHANGED nonTlsVars

TlsAcquire(t) ==
    /\ TlsAt(t, "lock")
    /\ TlsLockFree(t)
    /\ m_tlsLock' = [owner |-> t,
                     count |-> IF m_tlsLock.owner = t THEN m_tlsLock.count + 1 ELSE 1]
    /\ tlsStack' = TlsSetPc(t, "guard")
    /\ UNCHANGED <<tlsSlot, s_inVldCall, m_tlsMap, nextTls, tlsCreated, observed>>
    /\ UNCHANGED nonTlsVars

\* s_inVldCall is raised before the tls_t is allocated.
TlsRaiseGuard(t) ==
    /\ TlsAt(t, "guard")
    /\ s_inVldCall' = [s_inVldCall EXCEPT ![TlsSlotOf(t)] = @ + 1]
    /\ tlsStack' = TlsSetPc(t, "new")
    /\ UNCHANGED <<tlsSlot, m_tlsLock, m_tlsMap, nextTls, tlsCreated, observed>>
    /\ UNCHANGED nonTlsVars

\* new tls_t: an allocation of the thread itself, through the same patch.
TlsNew(t) ==
    /\ TlsAt(t, "new")
    /\ tlsStack' = [TlsSetPc(t, "store") EXCEPT
                      ![t] = Append(@, [pc |-> "entry", snap |-> {}])]
    /\ UNCHANGED <<tlsSlot, s_inVldCall, m_tlsLock, m_tlsMap, nextTls,
                   tlsCreated, observed>>
    /\ UNCHANGED nonTlsVars

\* The tls_t is there: store it in the thread's slot and read the registry.
TlsStore(t) ==
    /\ TlsAt(t, "store")
    /\ tlsSlot' = [tlsSlot EXCEPT ![TlsSlotOf(t)] = nextTls]
    /\ nextTls' = nextTls + 1
    /\ tlsCreated' = [tlsCreated EXCEPT ![t] = @ + 1]
    /\ tlsStack' = [tlsStack EXCEPT ![t] =
                      [i \in 1..Len(@) |->
                         IF i = Len(@) THEN [pc |-> "insert", snap |-> m_tlsMap]
                         ELSE @[i]]]
    /\ UNCHANGED <<s_inVldCall, m_tlsLock, m_tlsMap, observed>>
    /\ UNCHANGED nonTlsVars

\* Write the registry back with the thread's record added.
TlsInsert(t) ==
    /\ TlsAt(t, "insert")
    /\ m_tlsMap' = TlsTop(t).snap
                     \cup {[thread |-> t, tls |-> tlsSlot[TlsSlotOf(t)]]}
    /\ tlsStack' = TlsSetPc(t, "release")
    /\ UNCHANGED <<tlsSlot, s_inVldCall, m_tlsLock, nextTls, tlsCreated, observed>>
    /\ UNCHANGED nonTlsVars

TlsRelease(t) ==
    /\ TlsAt(t, "release")
    /\ s_inVldCall' = [s_inVldCall EXCEPT ![TlsSlotOf(t)] = @ - 1]
    /\ m_tlsLock' = IF m_tlsLock.count <= 1
                       THEN [owner |-> NoThread, count |-> 0]
                       ELSE [m_tlsLock EXCEPT !.count = @ - 1]
    /\ tlsStack' = TlsSetPc(t, "track")
    /\ UNCHANGED <<tlsSlot, m_tlsMap, nextTls, tlsCreated, observed>>
    /\ UNCHANGED nonTlsVars

\* The allocation is tracked and the call returns.
TlsTrack(t) ==
    /\ TlsAt(t, "track")
    /\ observed' = [observed EXCEPT ![t] = @ + 1]
    /\ tlsStack' = TlsPop(t)
    /\ UNCHANGED <<tlsSlot, s_inVldCall, m_tlsLock, m_tlsMap, nextTls, tlsCreated>>
    /\ UNCHANGED nonTlsVars

TlsStep(t) ==
    \/ TlsCallMalloc(t)
    \/ RtlAllocateHeap(t)
    \/ getTls(t)
    \/ TlsAcquire(t)
    \/ TlsRaiseGuard(t)
    \/ TlsNew(t)
    \/ TlsStore(t)
    \/ TlsInsert(t)
    \/ TlsRelease(t)
    \/ TlsTrack(t)

TlsNext == \E t \in Threads : TlsStep(t)

InitTls ==
    DispIdle /\ PatchIdle /\ TlsInit /\ ApiInit /\ ReportIdle /\ LeakIdle /\ ScanIdle /\ PathIdle /\ WalkIdle /\ LoopIdle /\ TraceIdle /\ DumpIdle /\ ImportIdle /\ LifeIdle

SpecTls == InitTls /\ [][TlsNext]_vars

(***************************************************************************)
(* The query API of the later VLD, as the specification and                *)
(* tests/ignore_functions_test describe it.                                *)
(***************************************************************************)
Callers == {"GetOSVersion", "SomeOtherString", "NotInTheList", "main"}

\* IgnoreFunctionsList of vld.ini
IgnoreFunctionsList == {"GetOSVersion", "SomeOtherString"}

IgnoresNothing(caller) == FALSE

\* Only the first name of the list is compared.
IgnoresFirstNameOnly(caller) == caller = "GetOSVersion"

\* The immediate caller of the allocation is in the list.
IsIgnored(caller) == caller \in IgnoreFunctionsList

\* An allocation by `caller`: inserted in the ledger unless ignored.
ApiAlloc(caller) ==
    /\ Cardinality(DOMAIN apiLog) < MaxBlocks
    /\ LET id == Cardinality(DOMAIN apiLog) + 1
       IN  /\ apiLog' = MapInsert(apiLog, id, [caller |-> caller, epoch |-> epoch])
           /\ ledger' = IF IsIgnored(caller) THEN ledger
                        ELSE MapInsert(ledger, id, [reported |-> FALSE])
    /\ UNCHANGED <<apiFreed, epoch>>
    /\ UNCHANGED nonApiVars

ApiFree(id) ==
    /\ id \in DOMAIN apiLog \ apiFreed
    /\ apiFreed' = apiFreed \cup {id}
    /\ ledger' = MapErase(ledger, id)
    /\ UNCHANGED <<apiLog, epoch>>
    /\ UNCHANGED nonApiVars

VLDMarkAllLeaksAsReported ==
    /\ epoch < MaxMarks
    /\ ledger' = [id \in DOMAIN ledger |-> [reported |-> TRUE]]
    /\ epoch' = epoch + 1
    /\ UNCHANGED <<apiLog, apiFreed>>
    /\ UNCHANGED nonApiVars

VLDGetLeaksCount == Cardinality({id \in DOMAIN ledger : ~ledger[id].reported})

ApiNext ==
    \/ \E caller \in Callers : ApiAlloc(caller)
    \/ \E id \in DOMAIN apiLog : ApiFree(id)
    \/ VLDMarkAllLeaksAsReported

InitApi ==
    DispIdle /\ PatchIdle /\ TlsInit /\ ApiInit /\ ReportIdle /\ LeakIdle /\ ScanIdle /\ PathIdle /\ WalkIdle /\ LoopIdle /\ TraceIdle /\ DumpIdle /\ ImportIdle /\ LifeIdle

SpecApi == InitApi /\ [][ApiNext]_vars

(***************************************************************************)
(* report(): vld.cpp 723-734 and utility.cpp 359-397.                      *)
(*                                                                         *)
(* A buffer is a sequence of cells: "c" a character of the message, "NUL"  *)
(* the terminator, "?" a cell nothing has written.  A message is its       *)
(* natural length, the number of characters the format produces.  The      *)
(* utility.cpp sink is taken with its defaults (no report file, report to  *)
(* the debugger); utility.h, which gives MAXREPORTLENGTH its value, is not *)
(* among the sources, so the value here is a bound of the model.           *)
(***************************************************************************)
Min(a, b) == IF a <= b THEN a ELSE b

Uninitialized(capacity) == [i \in 1..capacity |-> "?"]

\* _vsnprintf / _vsnwprintf of the Microsoft CRT: at most `count` characters
\* are stored, and the terminator only when the message is shorter than
\* `count`.
vsnprintf(buffer, count, natural) ==
    [i \in 1..Len(buffer) |->
        IF i <= Min(natural, count) THEN "c"
        ELSE IF i = natural + 1 /\ natural < count THEN "NUL"
        ELSE buffer[i]]

\* buffer[index] = '\0', index counted from 0.
SetTerminator(buffer, index) == [buffer EXCEPT ![index + 1] = "NUL"]

\* The buffer holds a string: characters, then a terminator.
Terminated(buffer) ==
    \E i \in 1..Len(buffer) :
        buffer[i] = "NUL" /\ \A j \in 1..(i - 1) : buffer[j] = "c"

strlen(buffer) ==
    (CHOOSE i \in 1..Len(buffer) :
        buffer[i] = "NUL" /\ \A j \in 1..(i - 1) : buffer[j] = "c") - 1

\* wcstombs(dest, src, count) when every character converts: at most `count`
\* bytes are stored, and the terminator only when the string is shorter.
wcstombs(dest, src, count) == vsnprintf(dest, count, strlen(src))

\* OutputDebugString reads up to the terminator.  Without one in the buffer
\* it reads what lies behind the buffer: it shows that too, or it faults.
OutputDebugString(buffer) ==
    IF Terminated(buffer)
       THEN {[outcome |-> "shown", len |-> strlen(buffer)]}
       ELSE {[outcome |-> "overread", len |-> Len(buffer)],
             [outcome |-> "fault", len |-> 0]}

\* VisualLeakDetector::report, vld.cpp 723-734.
VldReport ==
    /\ ~returned
    /\ reportCall.sink = "vld"
    /\ LET buffer == vsnprintf(Uninitialized(MAXREPORTMESSAGESIZE),
                               MAXREPORTMESSAGESIZE, reportCall.natural)
       IN  /\ message' = buffer
           /\ debugOut' \in OutputDebugString(buffer)
    /\ returned' = TRUE
    /\ UNCHANGED reportCall
    /\ UNCHANGED nonReportVars

\* report, utility.cpp 359-397.
UtilityReport ==
    /\ ~returned
    /\ reportCall.sink = "utility"
    /\ LET messagew ==
               SetTerminator(vsnprintf(Uninitialized(MAXREPORTLENGTH + 1),
                                       MAXREPORTLENGTH, reportCall.natural),
                             MAXREPORTLENGTH)
           messagea ==
               SetTerminator(wcstombs(Uninitialized(MAXREPORTLENGTH + 1),
                                      messagew, MAXREPORTLENGTH),
                             MAXREPORTLENGTH)
       IN  IF reportCall.unicode
              THEN /\ message' = messagew
                   /\ debugOut' \in OutputDebugString(messagew)
           ELSE IF ~reportCall.convertible
              THEN /\ message' = messagew
                   /\ debugOut' = [outcome |-> "dropped", len |-> 0]
           ELSE /\ message' = messagea
                /\ debugOut' \in OutputDebugString(messagea)
    /\ returned' = TRUE
    /\ UNCHANGED reportCall
    /\ UNCHANGED nonReportVars

ReportCalls ==
    {[sink |-> "vld", natural |-> n, unicode |-> FALSE, convertible |-> TRUE] :
        n \in 0..MaxMessage}
    \cup [sink : {"utility"}, natural : 0..MaxMessage, unicode : BOOLEAN,
          convertible : BOOLEAN]

ReportInit ==
    /\ reportCall \in ReportCalls
    /\ message = <<>>
    /\ debugOut = [outcome |-> "none", len |-> 0]
    /\ returned = FALSE

ReportNext == VldReport \/ UtilityReport

InitReport ==
    DispIdle /\ PatchIdle /\ TlsInit /\ ApiInit /\ ReportInit /\ LeakIdle /\ ScanIdle /\ PathIdle /\ WalkIdle /\ LoopIdle /\ TraceIdle /\ DumpIdle /\ ImportIdle /\ LifeIdle

SpecReport == InitReport /\ [][ReportNext]_vars

(***************************************************************************)
(* reportleaks() on one leaked block: vld.cpp 759-882.                     *)
(*                                                                         *)
(* A frame of the CallStack is what the frame loop makes of it: whether    *)
(* the noise filter drops it, and the natural length of the line it        *)
(* prints (source path up to MAX_PATH, symbol name up to                   *)
(* MAXSYMBOLNAMELENGTH).  The header, data dump and summary lines are      *)
(* shorter than the buffer of report().                                    *)
(***************************************************************************)
LineLengths ==
    {MAXREPORTMESSAGESIZE - 2, MAXREPORTMESSAGESIZE - 1, MAXREPORTMESSAGESIZE,
     MaxMessage}

Frames == [useless : BOOLEAN, line : LineLengths]

\* The frames StackWalk64 can walk back through at the allocation.
StackWalks == UNION {[1..n -> Frames] : n \in 0..(VLD_maxtraceframes + 1)}

\* getstacktrace, vld.cpp 521-567: at most _VLD_maxtraceframes frames.
getstacktrace(walk) == SubSeq(walk, 1, Min(Len(walk), VLD_maxtraceframes))

\* What one call of VisualLeakDetector::report can do with a message.
report(natural) ==
    OutputDebugString(vsnprintf(Uninitialized(MAXREPORTMESSAGESIZE),
                                MAXREPORTMESSAGESIZE, natural))

LeakInit ==
    /\ callstack \in {getstacktrace(walk) : walk \in StackWalks}
    /\ rl = [pc |-> "start", frame |-> 0, symbols |-> TRUE, leaksfound |-> 0,
             shown |-> 0, summary |-> FALSE, cleanup |-> FALSE]

\* vld.cpp 775-790: the symbol handler is initialized, or a warning is shown.
RlSymInitialize ==
    /\ rl.pc = "start"
    /\ \E ok \in BOOLEAN : rl' = [rl EXCEPT !.pc = "walk", !.symbols = ok]
    /\ UNCHANGED callstack
    /\ UNCHANGED nonLeakVars

\* vld.cpp 799-818: the block is found in the map; its header is shown.
RlFound ==
    /\ rl.pc = "walk"
    /\ rl' = [rl EXCEPT !.pc = "frames", !.frame = 0,
                        !.leaksfound = rl.leaksfound + 1]
    /\ UNCHANGED callstack
    /\ UNCHANGED nonLeakVars

\* vld.cpp 821-856: one iteration of the frame loop.
RlFrame ==
    /\ rl.pc = "frames"
    /\ rl.frame < Len(callstack)
    /\ LET f == callstack[rl.frame + 1]
       IN  IF f.useless
              THEN rl' = [rl EXCEPT !.frame = rl.frame + 1]
              ELSE \E out \in report(f.line) :
                      IF out.outcome = "fault"
                         THEN rl' = [rl EXCEPT !.pc = "fault"]
                         ELSE rl' = [rl EXCEPT !.frame = rl.frame + 1,
                                               !.shown = rl.shown + 1]
    /\ UNCHANGED callstack
    /\ UNCHANGED nonLeakVars

\* vld.cpp 858-866: the data dump, and the end of the list.
RlDump ==
    /\ rl.pc = "frames"
    /\ rl.frame = Len(callstack)
    /\ rl' = [rl EXCEPT !.pc = "summary"]
    /\ UNCHANGED callstack
    /\ UNCHANGED nonLeakVars

\* vld.cpp 869-876.
RlSummary ==
    /\ rl.pc = "summary"
    /\ rl' = [rl EXCEPT !.pc = "cleanup", !.summary = TRUE]
    /\ UNCHANGED callstack
    /\ UNCHANGED nonLeakVars

\* vld.cpp 878-881.
RlSymCleanup ==
    /\ rl.pc = "cleanup"
    /\ rl' = [rl EXCEPT !.pc = "done", !.cleanup = TRUE]
    /\ UNCHANGED callstack
    /\ UNCHANGED nonLeakVars

LeakNext ==
    \/ RlSymInitialize
    \/ RlFound
    \/ RlFrame
    \/ RlDump
    \/ RlSummary
    \/ RlSymCleanup

InitLeak ==
    DispIdle /\ PatchIdle /\ TlsInit /\ ApiInit /\ ReportIdle /\ LeakInit /\ ScanIdle /\ PathIdle /\ WalkIdle /\ LoopIdle /\ TraceIdle /\ DumpIdle /\ ImportIdle /\ LifeIdle

SpecLeak == InitLeak /\ [][LeakNext]_vars

(***************************************************************************)
(* reportleaks() walking the allocated list: vld.cpp 792-881.              *)
(*                                                                         *)
(* The list holds internal blocks, blocks the map has no entry for and     *)
(* blocks the map has a CallStack for.  What the symbol handler answers    *)
(* for a frame is chosen when the frame is reached.  sourceinfo is filled  *)
(* by a lookup that succeeds; after one that fails it holds what it held   *)
(* before, or nothing.                                                     *)
(***************************************************************************)
BlockKinds ==
    {[use |-> VLDINTERNALBLOCK, tracked |-> FALSE, frames |-> 0],
     [use |-> NORMAL_BLOCK, tracked |-> FALSE, frames |-> 0]}
    \cup {[use |-> NORMAL_BLOCK, tracked |-> TRUE, frames |-> k] :
             k \in 0..MaxScanFrames}

AllocatedLists == UNION {[1..n -> BlockKinds] : n \in 0..MaxScanBlocks}

\* The newest block is the head of the list.
ListOf(kinds) ==
    [i \in 1..Len(kinds) |->
        [lRequest |-> Len(kinds) - i + 1, nBlockUse |-> kinds[i].use,
         by |-> IF kinds[i].use = VLDINTERNALBLOCK THEN "vld" ELSE "app"]]

MapOf(kinds) ==
    [r \in {Len(kinds) - i + 1 : i \in {j \in 1..Len(kinds) : kinds[j].tracked}}
        |-> kinds[Len(kinds) - r + 1].frames]

NoFile == [set |-> FALSE, of |-> <<0, 0>>]

ScanInit ==
    /\ \E kinds \in AllocatedLists :
          /\ scanList = ListOf(kinds)
          /\ scanMap = MapOf(kinds)
    /\ sc = [pc |-> "start", pos |-> 0, frame |-> 0, leaksfound |-> 0,
             headers |-> <<>>, FileName |-> NoFile,
             last |-> [lineok |-> TRUE, form |-> "none"], summary |-> <<>>]

PluralAlways(n) == "s.\n"

\* 874: (leaksfound > 1) ? "s.\n" : ".\n"
Plural(n) == IF n > 1 THEN "s.\n" ELSE ".\n"

\* 869-876: the calls of report() that make the summary.
Summary(leaksfound) ==
    IF leaksfound = 0
       THEN <<"No memory leaks detected.\n">>
       ELSE <<"Detected ", leaksfound, " memory leak", Plural(leaksfound)>>

\* 849-855: which line the frame loop prints for a frame, given what
\* sourceinfo.FileName holds: the frame's own file, the file a lookup for
\* another frame left there, or the form without file and line.
FrameForm(FileName, this) ==
    IF ~FileName.set THEN "unavailable"
    ELSE IF FileName.of = this THEN "file"
    ELSE "stale"

\* 850: what report() can do with a line that names a file; the path and
\* the symbol name make it as long as LineLengths says.
FileLineOutcomes ==
    UNION {{out.outcome : out \in report(natural)} : natural \in LineLengths}

\* 853-854: the lines without file and line fit the buffer of report().
NoFileLineOutcomes ==
    {out.outcome : out \in report(MAXREPORTMESSAGESIZE - 1)}

\* 785-790.
ScSymInitialize ==
    /\ sc.pc = "start"
    /\ \E ok \in BOOLEAN : sc' = [sc EXCEPT !.pc = "walk", !.pos = 1]
    /\ UNCHANGED <<scanList, scanMap>>
    /\ UNCHANGED nonScanVars

\* 802-818: the next block of the list.
ScBlock ==
    /\ sc.pc = "walk"
    /\ sc.pos <= Len(scanList)
    /\ LET b == scanList[sc.pos]
       IN  IF IsLeak(b, scanMap)
              THEN sc' = [sc EXCEPT !.pc = "frames", !.frame = 0,
                                    !.leaksfound = sc.leaksfound + 1,
                                    !.headers = Append(sc.headers, b.lRequest)]
              ELSE sc' = [sc EXCEPT !.pos = sc.pos + 1]
    /\ UNCHANGED <<scanList, scanMap>>
    /\ UNCHANGED nonScanVars

\* 821-856: one frame of the block's CallStack.
ScFrame ==
    /\ sc.pc = "frames"
    /\ sc.frame < scanMap[scanList[sc.pos].lRequest]
    /\ LET this == <<scanList[sc.pos].lRequest, sc.frame + 1>>
       IN  \E lineok, nameok, useless \in BOOLEAN :
           \E FileName \in IF lineok THEN {[set |-> TRUE, of |-> this]}
                                     ELSE {sc.FileName, NoFile} :
              IF lineok /\ useless
                 THEN sc' = [sc EXCEPT !.frame = sc.frame + 1,
                                       !.FileName = FileName]
                 ELSE \E outcome \in IF FileName.set THEN FileLineOutcomes
                                     ELSE NoFileLineOutcomes :
                         IF outcome = "fault"
                            THEN sc' = [sc EXCEPT !.pc = "fault"]
                            ELSE sc' = [sc EXCEPT
                                          !.frame = sc.frame + 1,
                                          !.FileName = FileName,
                                          !.last = [lineok |-> lineok,
                                                    form |-> FrameForm(FileName, this)]]
    /\ UNCHANGED <<scanList, scanMap>>
    /\ UNCHANGED nonScanVars

\* 858-866: the data dump, then the next block.
ScDump ==
    /\ sc.pc = "frames"
    /\ sc.frame = scanMap[scanList[sc.pos].lRequest]
    /\ sc' = [sc EXCEPT !.pc = "walk", !.pos = sc.pos + 1]
    /\ UNCHANGED <<scanList, scanMap>>
    /\ UNCHANGED nonScanVars

\* 869-876.
ScSummary ==
    /\ sc.pc = "walk"
    /\ sc.pos > Len(scanList)
    /\ sc' = [sc EXCEPT !.pc = "cleanup", !.summary = Summary(sc.leaksfound)]
    /\ UNCHANGED <<scanList, scanMap>>
    /\ UNCHANGED nonScanVars

\* 878-881.
ScSymCleanup ==
    /\ sc.pc = "cleanup"
    /\ sc' = [sc EXCEPT !.pc = "done"]
    /\ UNCHANGED <<scanList, scanMap>>
    /\ UNCHANGED nonScanVars

ScanNext ==
    \/ ScSymInitialize
    \/ ScBlock
    \/ ScFrame
    \/ ScDump
    \/ ScSummary
    \/ ScSymCleanup

InitScan ==
    DispIdle /\ PatchIdle /\ TlsInit /\ ApiInit /\ ReportIdle /\ LeakIdle /\ PathIdle /\ WalkIdle /\ LoopIdle /\ TraceIdle /\ DumpIdle /\ ImportIdle /\ LifeIdle
    /\ ScanInit

SpecScan == InitScan /\ [][ScanNext]_vars

(***************************************************************************)
(* buildsymbolsearchpath(): vld.cpp 301-397.                               *)
(*                                                                         *)
(* A string is the sequence of its characters; a buffer is a string        *)
(* followed by its terminator and by what lies behind it.  The command     *)
(* line begins with the name of the program: it is not empty and does not  *)
(* begin with a space.                                                     *)
(***************************************************************************)
Quote == "\""

Space == " "

Backslash == "\\"

Letter == "a"

Strings(alphabet, n) == UNION {[1..k -> alphabet] : k \in 0..n}

CommandLines ==
    {c \in Strings({Quote, Space, Backslash, Letter}, MaxCommand) :
        c # <<>> /\ c[1] # Space}

EnvValues ==
    {[set |-> FALSE, value |-> <<>>]}
    \cup {[set |-> TRUE, value |-> v] : v \in Strings({Quote, Letter}, MaxEnv)}

\* 323-337: the index of the first space outside quotes, or the length.
RECURSIVE EndOfProgram(_, _, _)
EndOfProgram(path, pos, inquote) ==
    IF pos >= Len(path) THEN pos
    ELSE IF path[pos + 1] = Space
         THEN IF ~inquote THEN pos
              ELSE EndOfProgram(path, pos + 1, inquote)
    ELSE IF path[pos + 1] = Quote
         THEN EndOfProgram(path, pos + 1, ~inquote)
    ELSE EndOfProgram(path, pos + 1, inquote)

\* 340-350: cut behind the last backslash that is not the first character;
\* without one the path becomes "\".
RECURSIVE DirectoryOf(_, _)
DirectoryOf(path, pos) ==
    IF pos = 0 THEN <<Backslash>>
    ELSE IF path[pos + 1] = Backslash THEN SubSeq(path, 1, pos + 1)
    ELSE DirectoryOf(path, pos - 1)

\* strapp: the destination with the source appended.
strapp(dest, source) == dest \o source

AppendEnv(path, env) ==
    IF env.set THEN strapp(strapp(path, <<";">>), env.value) ELSE path

\* 365-369.
AppendSystemRoot(path, env) ==
    IF env.set
       THEN strapp(strapp(strapp(strapp(strapp(path, <<";">>), env.value),
                                 <<";">>), env.value),
                   <<Backslash, "s", "y", "s", "t", "e", "m", "3", "2">>)
       ELSE path

\* 389-391: for (index = pos; index < length; index++)
\*              path[index] = path[index + 1];
ShiftLeft(buffer, pos, length) ==
    [i \in 1..Len(buffer) |->
        IF i >= pos + 1 /\ i <= length THEN buffer[i + 1] ELSE buffer[i]]

\* 384-394: the loop that removes quotes; pos advances after every
\* character looked at, also after one that was removed.
RECURSIVE RemoveQuotes(_, _, _)
RemoveQuotes(buffer, pos, length) ==
    IF pos >= length THEN buffer
    ELSE IF buffer[pos + 1] = Quote
         THEN RemoveQuotes(ShiftLeft(buffer, pos, length), pos + 1, length)
    ELSE RemoveQuotes(buffer, pos + 1, length)

\* The string a buffer holds: the characters before the first terminator.
RECURSIVE StringIn(_)
StringIn(buffer) ==
    IF buffer = <<>> \/ Head(buffer) = "NUL" THEN <<>>
    ELSE <<Head(buffer)>> \o StringIn(Tail(buffer))

buildsymbolsearchpath(commandline, env) ==
    LET program == SubSeq(commandline, 1, EndOfProgram(commandline, 0, FALSE))
        directory == DirectoryOf(program, Len(program) - 1)
        path == AppendEnv(AppendEnv(AppendSystemRoot(
                    strapp(directory, <<";", ".", Backslash>>),
                    env.SYSTEMROOT), env.NT_SYMBOL_PATH), env.NT_ALT_SYMBOL_PATH)
    IN  StringIn(RemoveQuotes(Append(path, "NUL"), 0, Len(path)))

PathInit ==
    /\ command \in CommandLines
    /\ environment \in [SYSTEMROOT : EnvValues, NT_SYMBOL_PATH : EnvValues,
                        NT_ALT_SYMBOL_PATH : EnvValues]
    /\ m_symbolpath = <<>>

BuildSymbolSearchPath ==
    /\ m_symbolpath = <<>>
    /\ m_symbolpath' = buildsymbolsearchpath(command, environment)
    /\ UNCHANGED <<command, environment>>
    /\ UNCHANGED nonPathVars

PathNext == BuildSymbolSearchPath

InitPath ==
    DispIdle /\ PatchIdle /\ TlsInit /\ ApiInit /\ ReportIdle /\ LeakIdle /\ WalkIdle /\ LoopIdle /\ TraceIdle /\ DumpIdle /\ ImportIdle /\ LifeIdle
    /\ ScanIdle /\ PathInit

SpecPath == InitPath /\ [][PathNext]_vars

(***************************************************************************)
(* reportleaks, vld.cpp 792-867: the throwaway block that gives the head   *)
(* of the allocated list, and the loop that follows pBlockHeaderNext.      *)
(* pheap and pheader are request ids, 0 is NULL.                           *)
(***************************************************************************)
IndexOf(list, id) == CHOOSE i \in 1..Len(list) : list[i].lRequest = id

\* pBlockHeaderNext of the block with request id id.
BlockHeaderNext(list, id) ==
    IF IndexOf(list, id) < Len(list)
       THEN list[IndexOf(list, id) + 1].lRequest
       ELSE 0

\* Without the continue at 861 the block after a leak is passed over.
AfterLeakFallsThrough(list, id, maxdatadump) ==
    IF maxdatadump = 0 /\ BlockHeaderNext(list, id) # 0
       THEN BlockHeaderNext(list, BlockHeaderNext(list, id))
       ELSE BlockHeaderNext(list, id)

\* 858-866: where pheader points after a leaked block was reported.
AfterLeak(list, id, maxdatadump) ==
    IF maxdatadump = 0
       THEN BlockHeaderNext(list, id)
       ELSE BlockHeaderNext(list, id)

\* _VLD_maxdatadump: no dump, or a dump of some bytes.
DumpOptions == {0, 1}

WalkInit ==
    \E kinds \in AllocatedLists : \E maxdatadump \in DumpOptions :
        wk = [pc |-> "new", list |-> ListOf(kinds), map |-> MapOf(kinds),
              before |-> ListOf(kinds), pheap |-> 0, pheader |-> 0,
              visited |-> <<>>, maxdatadump |-> maxdatadump]

\* 799: pheap = new char; the new block is the head of the list.
WkNew ==
    /\ wk.pc = "new"
    /\ wk' = [wk EXCEPT !.pc = "head", !.pheap = Len(wk.list) + 1,
                        !.list = <<[lRequest |-> Len(wk.list) + 1,
                                    nBlockUse |-> NORMAL_BLOCK,
                                    by |-> "vld"]>> \o wk.list]
    /\ UNCHANGED nonWalkVars

\* 800: pheader = pHdr(pheap)->pBlockHeaderNext.
WkHead ==
    /\ wk.pc = "head"
    /\ wk' = [wk EXCEPT !.pc = "delete",
                        !.pheader = BlockHeaderNext(wk.list, wk.pheap)]
    /\ UNCHANGED nonWalkVars

\* 801: delete pheap.
WkDelete ==
    /\ wk.pc = "delete"
    /\ wk' = [wk EXCEPT !.pc = "loop", !.list = Unlink(wk.list, wk.pheap)]
    /\ UNCHANGED nonWalkVars

\* 802-866: one turn of while (pheader).
WkBlock ==
    /\ wk.pc = "loop"
    /\ wk.pheader # 0
    /\ LET b == wk.list[IndexOf(wk.list, wk.pheader)]
           next == IF IsInternal(b)
                      THEN BlockHeaderNext(wk.list, wk.pheader)
                   ELSE IF b.lRequest \in DOMAIN wk.map
                      THEN AfterLeak(wk.list, wk.pheader, wk.maxdatadump)
                   ELSE BlockHeaderNext(wk.list, wk.pheader)
       IN  wk' = [wk EXCEPT !.visited = Append(wk.visited, wk.pheader),
                            !.pheader = next]
    /\ UNCHANGED nonWalkVars

\* 802: pheader is NULL, the loop ends.
WkEnd ==
    /\ wk.pc = "loop"
    /\ wk.pheader = 0
    /\ wk' = [wk EXCEPT !.pc = "done"]
    /\ UNCHANGED nonWalkVars

WalkNext ==
    \/ WkNew
    \/ WkHead
    \/ WkDelete
    \/ WkBlock
    \/ WkEnd

InitWalk ==
    DispIdle /\ PatchIdle /\ TlsInit /\ ApiInit /\ ReportIdle /\ LeakIdle /\ ScanIdle /\ PathIdle /\ LoopIdle /\ TraceIdle /\ DumpIdle /\ ImportIdle /\ LifeIdle
    /\ WalkInit

SpecWalk == InitWalk /\ [][WalkNext]_vars

(***************************************************************************)
(* reportleaks, vld.cpp 821-856: the loop over the frames of the leaked    *)
(* blocks' CallStacks.  sourceinfo is cleared once, at 780, and is then    *)
(* handed to every pSymGetLineFromAddr64 call.  out keeps, frame by frame, *)
(* what the symbol handler answered and what the loop printed.             *)
(***************************************************************************)
\* The source files the symbol handler can name.
SourceFiles == {"dbgheap.c", "main.cpp"}

\* 830-833: strstr(sourceinfo.FileName, ...) for the four names.
IsNoise(file) == file \in {"afxmem.cpp", "dbgheap.c", "new.cpp", "vld.cpp"}

\* The filter looks at whatever file name sourceinfo holds.
SuppressedByFileAlone(showuselessframes, lineok, sourceinfo) ==
    ~showuselessframes /\ sourceinfo.set /\ IsNoise(sourceinfo.file)

\* 824-837: the frame is passed over (continue).
Suppressed(showuselessframes, lineok, sourceinfo) ==
    lineok /\ ~showuselessframes /\ IsNoise(sourceinfo.file)

\* 841-846
FunctionName(nameok) ==
    IF nameok THEN "pfunctioninfo->Name" ELSE "(Function name unavailable)"

\* 849-855: the line printed for the frame.
FrameLine(frame, sourceinfo, functionname) ==
    IF sourceinfo.set
       THEN [form |-> "file (line): function", file |-> sourceinfo.file,
             of |-> sourceinfo.of, function |-> functionname]
       ELSE [form |-> "0xADDR (File and line number not available): function",
             file |-> "NULL", of |-> frame, function |-> functionname]

LoopInit ==
    \E show \in BOOLEAN :
        fl = [pc |-> "frames", showuselessframes |-> show, frame |-> 0, block |-> 1,
              sourceinfo |-> [set |-> FALSE, file |-> "NULL", of |-> 0],
              out |-> <<>>]

\* 821-856: one frame.  pSymGetLineFromAddr64 fills sourceinfo when it
\* succeeds; when it fails it leaves the structure as it was or empties it.
FlFrame ==
    /\ fl.pc = "frames"
    /\ fl.frame < MaxLoopFrames
    /\ LET frame == fl.frame + 1
       IN  \E lineok, nameok \in BOOLEAN : \E file \in SourceFiles :
           \E sourceinfo \in
                IF lineok THEN {[set |-> TRUE, file |-> file, of |-> frame]}
                ELSE {fl.sourceinfo, [set |-> FALSE, file |-> "NULL", of |-> 0]} :
             LET input == [frame |-> frame, block |-> fl.block, lineok |-> lineok,
                           file |-> IF lineok THEN file ELSE "NULL",
                           nameok |-> nameok]
             IN  IF Suppressed(fl.showuselessframes, lineok, sourceinfo)
                    THEN fl' = [fl EXCEPT
                                  !.frame = frame, !.sourceinfo = sourceinfo,
                                  !.out = Append(fl.out,
                                            [input |-> input, shown |-> FALSE,
                                             line |-> [form |-> "none", file |-> "NULL",
                                                       of |-> 0, function |-> "none"]])]
                    ELSE \E outcome \in IF sourceinfo.set THEN FileLineOutcomes
                                        ELSE NoFileLineOutcomes :
                           IF outcome = "fault"
                              THEN fl' = [fl EXCEPT !.pc = "fault"]
                              ELSE fl' = [fl EXCEPT
                                            !.frame = frame, !.sourceinfo = sourceinfo,
                                            !.out = Append(fl.out,
                                               [input |-> input, shown |-> TRUE,
                                                line |-> FrameLine(frame, sourceinfo,
                                                           FunctionName(nameok))])]
    /\ UNCHANGED nonLoopVars

\* 858-866 and 802-818: the frames of this block are done, the next leaked
\* block begins.
FlBlock ==
    /\ fl.pc = "frames"
    /\ fl.block < MaxLoopBlocks
    /\ fl' = [fl EXCEPT !.block = fl.block + 1]
    /\ UNCHANGED nonLoopVars

\* 867: the last block is done.
FlEnd ==
    /\ fl.pc = "frames"
    /\ fl' = [fl EXCEPT !.pc = "done"]
    /\ UNCHANGED nonLoopVars

LoopNext ==
    \/ FlFrame
    \/ FlBlock
    \/ FlEnd

InitLoop ==
    DispIdle /\ PatchIdle /\ TlsInit /\ ApiInit /\ ReportIdle /\ LeakIdle /\ ScanIdle /\ PathIdle /\ WalkIdle /\ TraceIdle /\ DumpIdle /\ ImportIdle /\ LifeIdle
    /\ LoopInit

SpecLoop == InitLoop /\ [][LoopNext]_vars

(***************************************************************************)
(* getstacktrace, vld.cpp 521-567.  thread is the stack of the calling     *)
(* thread, innermost frame first: getstacktrace itself, hookmalloc,        *)
(* allochook, the debug heap, then the frames of the application.  The     *)
(* STACKFRAME64 handed to StackWalk64 holds the program counter and the    *)
(* frame pointer of getstacktrace (534-535, 546-548), so the first call    *)
(* returns that frame and each later call the frame of its caller.         *)
(***************************************************************************)
EngineFrames == <<"getstacktrace", "hookmalloc", "allochook", "_heap_alloc_dbg">>

\* The n frames of the application above the debug heap, the nearest first.
AppFrames(n) ==
    [i \in 1..n |-> IF i = 1 THEN "operator new"
                    ELSE IF i = 2 THEN "main" ELSE "mainCRTStartup"]

ThreadStacks == {EngineFrames \o AppFrames(n) : n \in 1..MaxAppFrames}

\* StackWalk64, call number n: the frame, a failure (no frame can be
\* traced), or, past the outermost frame, a frame pointer of zero.
StackWalk64(thread, n) ==
    IF n <= Len(thread)
       THEN {[outcome |-> "ok", AddrPC |-> thread[n]],
             [outcome |-> "fail", AddrPC |-> "none"]}
       ELSE {[outcome |-> "fail", AddrPC |-> "none"],
             [outcome |-> "zero", AddrPC |-> "none"]}

\* Only a failure of StackWalk64 ends the walk without a push.
PushesUnlessFailed(outcome) == outcome # "fail"

\* 554-565: the frame is pushed if StackWalk64 succeeded and
\* frame.AddrFrame.Offset is not 0.
Pushes(outcome) == outcome = "ok"

TraceInit ==
    \E thread \in ThreadStacks : \E max \in 0..MaxTrace :
        tr = [pc |-> "loop", maxtraceframes |-> max, thread |-> thread,
              count |-> 0, steps |-> <<>>, callstack |-> <<>>]

\* 552-566: one turn of while (count < _VLD_maxtraceframes).
GsWalk ==
    /\ tr.pc = "loop"
    /\ tr.count < tr.maxtraceframes
    /\ \E frame \in StackWalk64(tr.thread, tr.count + 1) :
          tr' = [tr EXCEPT
                   !.count = tr.count + 1,
                   !.steps = Append(tr.steps, frame.outcome),
                   !.callstack = IF Pushes(frame.outcome)
                                    THEN Append(tr.callstack, frame.AddrPC)
                                    ELSE tr.callstack,
                   !.pc = IF frame.outcome = "ok" THEN "loop" ELSE "done"]
    /\ UNCHANGED nonTraceVars

\* 552: count has reached _VLD_maxtraceframes.
GsFull ==
    /\ tr.pc = "loop"
    /\ tr.count >= tr.maxtraceframes
    /\ tr' = [tr EXCEPT !.pc = "done"]
    /\ UNCHANGED nonTraceVars

TraceNext ==
    \/ GsWalk
    \/ GsFull

InitTrace ==
    DispIdle /\ PatchIdle /\ TlsInit /\ ApiInit /\ ReportIdle /\ LeakIdle /\ ScanIdle /\ PathIdle /\ WalkIdle /\ LoopIdle /\ DumpIdle /\ ImportIdle /\ LifeIdle
    /\ TraceInit

SpecTrace == InitTrace /\ [][TraceNext]_vars

\* getstacktrace runs on the thread that made the request; nothing in it
\* waits.
FairSpecTrace == SpecTrace /\ WF_vars(TraceNext)

(***************************************************************************)
(* The data dump of one leaked block: the guard of reportleaks (vld.cpp    *)
(* 858-864), dumpuserdatablock (vld.cpp 413-478) and dumpmemorya           *)
(* (utility.cpp 52-114).  A row buffer is a function from its indexes to   *)
(* characters, NUL being the terminator; a store past the last index of a  *)
(* buffer is recorded in du.inside.                                        *)
(***************************************************************************)
NUL == "NUL"

\* vld.cpp 423, utility.cpp 61: char hexdump [58] = {0}
HexSize == 58

\* vld.cpp 415, utility.cpp 54: char ascdump [18] = {0}
AscSize == 18

\* vld.cpp 428, utility.cpp 64: each line of output is 16 bytes.
RowBytes == 16

Zeroed(size) == [i \in 0..(size - 1) |-> NUL]

HexDigits == <<"0", "1", "2", "3", "4", "5", "6", "7",
               "8", "9", "A", "B", "C", "D", "E", "F">>

\* vld.cpp 447, utility.cpp 82-83: "%.2X " of one byte, without the
\* terminator.
FormatByte(datum) ==
    <<HexDigits[(datum \div 16) + 1], HexDigits[(datum % 16) + 1], " ">>

\* isprint(datum) && datum != ' ' (vld.cpp 449), isgraph(byte)
\* (utility.cpp 85), in the C locale.
IsGraph(datum) == datum >= 33 /\ datum <= 126

\* The bytes a block may hold, and the character each one prints as.
ByteValues == <<65, 0, 32, 255, 122>>

CharOf(datum) ==
    IF datum = 65 THEN "A" ELSE IF datum = 122 THEN "z" ELSE "?"

\* vld.cpp 450-454, utility.cpp 85-90
AscChar(datum) == IF IsGraph(datum) THEN CharOf(datum) ELSE "."

\* The user data of a block of the given size.
DataOf(size) ==
    [i \in 1..size |-> ByteValues[((i - 1) % Len(ByteValues)) + 1]]

\* strncpy / wcsncpy (dest + at, src, n): n characters are stored, the
\* characters of src and then terminators.
Strncpy(buf, at, src, n) ==
    [i \in DOMAIN buf |->
        IF i >= at /\ i < at + n
           THEN IF i - at < Len(src) THEN src[i - at + 1] ELSE NUL
           ELSE buf[i]]

\* A store of n characters at index at stays inside the buffer.
Inside(buf, at, n) == \A i \in at..(at + n - 1) : i \in DOMAIN buf

\* The string report reads from a buffer: the characters before the
\* first terminator.
CStr(buf, size) ==
    LET ends == {i \in 0..(size - 1) : buf[i] = NUL}
        len == IF ends = {} THEN size
               ELSE CHOOSE i \in ends : \A j \in ends : i <= j
    IN  [k \in 1..len |-> buf[k - 1]]

\* The last row is not padded.
DumpLenNoPadding(datalen) == datalen

\* vld.cpp 429-436, utility.cpp 65-72
DumpLen(datalen) ==
    IF datalen % RowBytes = 0
       THEN datalen
       ELSE datalen + (RowBytes - (datalen % RowBytes))

\* vld.cpp 443, utility.cpp 78
HexIndex(byte) == 3 * ((byte % 16) + ((byte % 16) \div 4))

\* vld.cpp 444, utility.cpp 79
AscIndex(byte) == (byte % 16) + ((byte % 16) \div 8)

\* The number of characters the padding and the spacer store in hexdump:
\* strncpy (..., "   ", 3) in vld.cpp 458 and 474, wcsncpy (..., L"   ", 4)
\* in utility.cpp 94 and 110.
SpaceCount(fn) == IF fn = "dumpuserdatablock" THEN 3 ELSE 4

\* reportleaks reaches the dump guard of a leaked block (vld.cpp 858), or
\* dumpmemorya is called with a region and its size (utility.cpp 52).
DumpInit ==
    \/ \E size \in 0..MaxData : \E max \in 0..MaxDump :
          du = [pc |-> "guard", fn |-> "dumpuserdatablock",
                maxdatadump |-> max, data |-> DataOf(size),
                datalen |-> 0, dumplen |-> 0, byte |-> 0, bytesdone |-> 0,
                hexdump |-> Zeroed(HexSize), ascdump |-> Zeroed(AscSize),
                reads |-> <<>>, out |-> <<>>, inside |-> TRUE]
    \/ \E size \in 0..MaxData :
          du = [pc |-> "loop", fn |-> "dumpmemorya",
                maxdatadump |-> 0, data |-> DataOf(size),
                datalen |-> size, dumplen |-> DumpLen(size),
                byte |-> 0, bytesdone |-> 0,
                hexdump |-> Zeroed(HexSize), ascdump |-> Zeroed(AscSize),
                reads |-> <<>>, out |-> <<>>, inside |-> TRUE]

\* vld.cpp 859-862: with _VLD_maxdatadump == 0 the block is left without
\* a dump.
DuSkip ==
    /\ du.pc = "guard"
    /\ du.maxdatadump = 0
    /\ du' = [du EXCEPT !.pc = "skipped"]
    /\ UNCHANGED nonDumpVars

\* vld.cpp 863, 426-441: dumpuserdatablock is entered; datalen, dumplen
\* and report ("  Data:\n").
DuEnter ==
    /\ du.pc = "guard"
    /\ du.maxdatadump # 0
    /\ LET datalen == IF du.maxdatadump < Len(du.data)
                         THEN du.maxdatadump ELSE Len(du.data)
       IN  du' = [du EXCEPT !.pc = "loop",
                            !.datalen = datalen,
                            !.dumplen = DumpLen(datalen),
                            !.out = Append(du.out, [kind |-> "Data:"])]
    /\ UNCHANGED nonDumpVars

\* vld.cpp 442-477, utility.cpp 77-113: one turn of the loop over the
\* byte positions.
DuByte ==
    /\ du.pc = "loop"
    /\ du.byte < du.dumplen
    /\ LET byte == du.byte
           hexindex == HexIndex(byte)
           ascindex == AscIndex(byte)
           isdata == byte < du.datalen
           datum == IF isdata THEN du.data[byte + 1] ELSE 0
           n == SpaceCount(du.fn)
           hex1 == IF isdata
                      THEN Strncpy(du.hexdump, hexindex, FormatByte(datum), 4)
                      ELSE Strncpy(du.hexdump, hexindex, <<" ", " ", " ">>, n)
           in1 == /\ Inside(du.hexdump, hexindex, IF isdata THEN 4 ELSE n)
                  /\ Inside(du.ascdump, ascindex, 1)
           asc1 == IF ascindex \in DOMAIN du.ascdump
                      THEN [du.ascdump EXCEPT
                              ![ascindex] = IF isdata THEN AscChar(datum) ELSE "."]
                      ELSE du.ascdump
           bytesdone == du.bytesdone + 1
           row == bytesdone % 16 = 0
           ascspacer == ~row /\ bytesdone % 8 = 0
           hexspacer == ~row /\ bytesdone % 4 = 0
           asc2 == IF ascspacer /\ (ascindex + 1) \in DOMAIN asc1
                      THEN [asc1 EXCEPT ![ascindex + 1] = " "]
                      ELSE asc1
           hex2 == IF hexspacer
                      THEN Strncpy(hex1, hexindex + 3, <<" ", " ", " ">>, n)
                      ELSE hex1
           in2 == /\ ascspacer => Inside(asc1, ascindex + 1, 1)
                  /\ hexspacer => Inside(hex1, hexindex + 3, n)
       IN  du' = [du EXCEPT
                    !.byte = byte + 1,
                    !.bytesdone = bytesdone,
                    !.hexdump = hex2,
                    !.ascdump = asc2,
                    !.inside = du.inside /\ in1 /\ in2,
                    !.reads = IF isdata THEN Append(du.reads, byte)
                              ELSE du.reads,
                    !.out = IF row
                               THEN Append(du.out,
                                           [kind |-> "row",
                                            hex |-> CStr(hex2, HexSize),
                                            asc |-> CStr(asc2, AscSize)])
                               ELSE du.out]
    /\ UNCHANGED nonDumpVars

\* vld.cpp 442, 478, 864; utility.cpp 77, 114: the loop is left and the
\* function returns; reportleaks closes the dump with an empty line.
DuReturn ==
    /\ du.pc = "loop"
    /\ du.byte >= du.dumplen
    /\ du' = [du EXCEPT
                !.pc = "done",
                !.out = IF du.fn = "dumpuserdatablock"
                           THEN Append(du.out, [kind |-> "end"])
                           ELSE du.out]
    /\ UNCHANGED nonDumpVars

DumpNext ==
    \/ DuSkip
    \/ DuEnter
    \/ DuByte
    \/ DuReturn

InitDump ==
    DispIdle /\ PatchIdle /\ TlsInit /\ ApiInit /\ ReportIdle /\ LeakIdle /\ ScanIdle /\ PathIdle /\ WalkIdle /\ LoopIdle /\ TraceIdle /\ ImportIdle /\ LifeIdle
    /\ DumpInit

SpecDump == InitDump /\ [][DumpNext]_vars

(***************************************************************************)
(* patchimport (utility.cpp 251-305) and restoreimport (418-471), one call *)
(* at a time and statement by statement, with the protection of the page   *)
(* that holds each descriptor's import address table.                      *)
(***************************************************************************)
Protections == {"PAGE_READONLY", "PAGE_READWRITE"}

\* The calls made on the module: an exporting module, an import and its
\* replacement.
ImportEntries ==
    {[exportmodulename |-> m, importname |-> n, replacement |-> 21] :
       m \in {"crt.dll", "k32.dll"}, n \in {"malloc", "free", "HeapAlloc"}}

\* VirtualProtect stores the old protection of the page in *lpflOldProtect
\* and returns the new protection as the old one.
VirtualProtectForgetsOld(prot, k, new) ==
    [prot |-> [prot EXCEPT ![k] = new], old |-> new]

\* VirtualProtect (&iate->u1.Function, ..., new, &protect): the page of the
\* entry takes the new protection and protect receives the old one.
VirtualProtect(prot, k, new) ==
    [prot |-> [prot EXCEPT ![k] = new], old |-> prot[k]]

ImportInit ==
    \E d \in ImportDirectories : \E a \in BOOLEAN :
    \E p \in [1..Len(d.descs) -> Protections] :
        im = [pc |-> "idle", fn |-> "none", entry |-> NoEntry, asserts |-> a,
              idt |-> d, before |-> d, prot |-> p, protBefore |-> p,
              protect |-> "uninitialized", k |-> 0, i |-> 0, writes |-> <<>>]

\* patchimport or restoreimport is called.
ImCall ==
    /\ im.pc \in {"idle", "returned"}
    /\ \E fn \in {"patchimport", "restoreimport"} : \E entry \in ImportEntries :
          im' = [im EXCEPT !.pc = "find", !.fn = fn, !.entry = entry,
                           !.before = im.idt, !.protBefore = im.prot,
                           !.protect = "uninitialized",
                           !.k = 0, !.i = 0, !.writes = <<>>]
    /\ UNCHANGED nonImportVars

\* 265-293, 432-460: the descriptor of the exporting module, the real
\* address of the import, and the entry that holds the address looked for.
ImFind ==
    /\ im.pc = "find"
    /\ LET k == IF im.idt.present
                   THEN FindDescriptor(im.idt.descs, im.entry.exportmodulename, 1)
                   ELSE 0
           import == GetProcAddress(im.entry.exportmodulename, im.entry.importname)
           key == IF im.fn = "restoreimport" THEN im.entry.replacement ELSE import
           i == IF k = 0 THEN 0 ELSE FindEntry(im.idt.descs[k].iat, key, 1)
       IN  im' = [im EXCEPT
                    !.k = k,
                    !.i = i,
                    !.pc = IF k = 0 THEN "returned"
                           ELSE IF import = 0 /\ im.asserts THEN "aborted"
                           ELSE IF i = 0 THEN "returned"
                           ELSE "relax"]
    /\ UNCHANGED nonImportVars

\* 298, 464: VirtualProtect (..., PAGE_READWRITE, &protect)
ImRelax ==
    /\ im.pc = "relax"
    /\ LET r == VirtualProtect(im.prot, im.k, "PAGE_READWRITE")
       IN  im' = [im EXCEPT !.prot = r.prot, !.protect = r.old, !.pc = "write"]
    /\ UNCHANGED nonImportVars

\* 299, 465: the store into the entry; a store into a page that is not
\* writable is an access violation.
ImWrite ==
    /\ im.pc = "write"
    /\ LET import == GetProcAddress(im.entry.exportmodulename, im.entry.importname)
           value == IF im.fn = "restoreimport" THEN import ELSE im.entry.replacement
       IN  IF im.prot[im.k] = "PAGE_READWRITE"
              THEN im' = [im EXCEPT
                            !.idt = WriteEntry(im.idt, im.k, im.i, value),
                            !.writes = Append(im.writes, <<im.k, im.i>>),
                            !.pc = "restore"]
              ELSE im' = [im EXCEPT !.pc = "fault"]
    /\ UNCHANGED nonImportVars

\* 300-301, 466-467: VirtualProtect (..., protect, &protect); break, and
\* the function returns.
ImRestore ==
    /\ im.pc = "restore"
    /\ LET r == VirtualProtect(im.prot, im.k, im.protect)
       IN  im' = [im EXCEPT !.prot = r.prot, !.protect = r.old, !.pc = "returned"]
    /\ UNCHANGED nonImportVars

ImportNext ==
    \/ ImCall
    \/ ImFind
    \/ ImRelax
    \/ ImWrite
    \/ ImRestore

InitImport ==
    DispIdle /\ PatchIdle /\ TlsInit /\ ApiInit /\ ReportIdle /\ LeakIdle /\ ScanIdle /\ PathIdle /\ WalkIdle /\ LoopIdle /\ TraceIdle /\ DumpIdle /\ LifeIdle
    /\ ImportInit

SpecImport == InitImport /\ [][ImportNext]_vars

(***************************************************************************)
(* The life of the VisualLeakDetector object and the memory it owns: the   *)
(* constructor (vld.cpp 132-150), the destructor (154-197) and             *)
(* buildsymbolsearchpath (300-397).  A block of memory is a positive       *)
(* number, 0 is NULL; lc.held is what has been allocated and not released, *)
(* lc.released every release in order.                                     *)
(***************************************************************************)
EnvNames == {"SYSTEMROOT", "_NT_SYMBOL_PATH", "_NT_ALT_SYMBOL_PATH"}

\* 360-381: the calls of strapp, each of which moves the path to a new
\* block.
StrappCalls(env) ==
    1 + (IF "SYSTEMROOT" \in env THEN 5 ELSE 0)
      + (IF "_NT_SYMBOL_PATH" \in env THEN 2 ELSE 0)
      + (IF "_NT_ALT_SYMBOL_PATH" \in env THEN 2 ELSE 0)

New(l) == [l EXCEPT !.held = l.held \cup {l.next}, !.next = l.next + 1]

Delete(l, p) ==
    IF p = 0 THEN l
    ELSE [l EXCEPT !.held = l.held \ {p}, !.released = Append(l.released, p)]

\* Before the C runtime constructs the object: whether the debug help
\* library will link, and the environment of the process.
LifeInit ==
    \E linked \in BOOLEAN : \E env \in SUBSET EnvNames :
        lc = [pc |-> "constructor", linked |-> linked, env |-> env,
              m_installed |-> FALSE, m_mallocmap |-> 0, m_symbolpath |-> 0,
              path |-> 0, entries |-> 0, strapps |-> 0, next |-> 1,
              held |-> {}, released |-> <<>>]

\* 132-150: the constructor.
LcConstructor ==
    /\ lc.pc = "constructor"
    /\ lc' = [New(lc) EXCEPT !.m_mallocmap = lc.next,
                             !.m_symbolpath = 0,
                             !.m_installed = lc.linked,
                             !.pc = "running"]
    /\ UNCHANGED nonLifeVars

\* 602-605: hookmalloc puts an entry into the map; the hook is only
\* registered when the object is installed (140-145).
LcInsert ==
    /\ lc.pc = "running"
    /\ lc.m_installed
    /\ lc.entries < MaxLifeEntries
    /\ lc' = [lc EXCEPT !.entries = lc.entries + 1]
    /\ UNCHANGED nonLifeVars

\* 583: hookfree takes an entry out of the map.
LcErase ==
    /\ lc.pc = "running"
    /\ lc.m_installed
    /\ lc.entries > 0
    /\ lc' = [lc EXCEPT !.entries = lc.entries - 1]
    /\ UNCHANGED nonLifeVars

\* 154-172: the destructor is entered; installed, it unhooks and calls
\* reportleaks, else it returns at once (160, 196-197).
LcDestructor ==
    /\ lc.pc = "running"
    /\ lc' = [lc EXCEPT !.pc = IF lc.m_installed THEN "buildsymbolsearchpath"
                               ELSE "destroyed"]
    /\ UNCHANGED nonLifeVars

\* 785, 300-312: path = new char [length + 1]; delete [] m_symbolpath if
\* it is not NULL.
LcBuildPath ==
    /\ lc.pc = "buildsymbolsearchpath"
    /\ lc' = [Delete(New(lc), lc.m_symbolpath) EXCEPT
                !.path = lc.next,
                !.strapps = StrappCalls(lc.env),
                !.pc = "strapp"]
    /\ UNCHANGED nonLifeVars

\* 360-381: one call of strapp: the path moves to a new block and the old
\* one is released.
LcStrapp ==
    /\ lc.pc = "strapp"
    /\ lc.strapps > 0
    /\ lc' = [Delete(New(lc), lc.path) EXCEPT
                !.path = lc.next,
                !.strapps = lc.strapps - 1]
    /\ UNCHANGED nonLifeVars

\* 396, 786-882: m_symbolpath = path; the rest of reportleaks.
LcReportLeaks ==
    /\ lc.pc = "strapp"
    /\ lc.strapps = 0
    /\ lc' = [lc EXCEPT !.m_symbolpath = lc.path, !.pc = "delete"]
    /\ UNCHANGED nonLifeVars

\* 175-176: delete m_mallocmap; delete [] m_symbolpath.
LcDelete ==
    /\ lc.pc = "delete"
    /\ lc' = [Delete(Delete(lc, lc.m_mallocmap), lc.m_symbolpath) EXCEPT
                !.entries = 0,
                !.pc = "selfcheck"]
    /\ UNCHANGED nonLifeVars

\* 178-197: the self-check and the end of the destructor.
LcSelfCheck ==
    /\ lc.pc = "selfcheck"
    /\ lc' = [lc EXCEPT !.pc = "destroyed"]
    /\ UNCHANGED nonLifeVars

LifeNext ==
    \/ LcConstructor
    \/ LcInsert
    \/ LcErase
    \/ LcDestructor
    \/ LcBuildPath
    \/ LcStrapp
    \/ LcReportLeaks
    \/ LcDelete
    \/ LcSelfCheck

InitLife ==
    DispIdle /\ PatchIdle /\ TlsInit /\ ApiInit /\ ReportIdle /\ LeakIdle /\ ScanIdle /\ PathIdle /\ WalkIdle /\ LoopIdle /\ TraceIdle /\ DumpIdle /\ ImportIdle
    /\ LifeInit

SpecLife == InitLife /\ [][LifeNext]_vars

(***************************************************************************)
(* Properties.                                                             *)
(***************************************************************************)
Reported == {leaks[i] : i \in 1..Len(leaks)}

AllocIds == {e.id : e \in allocEv}

\* C1 (as stated): the ids reported as leaks are exactly the ids that
\* received an alloc event and no later free event.
C1_LeaksAreAllocatedNotFreed ==
    phase = "reported" => Reported = AllocIds \ freeEv

\* C1 (amended): the ids reported as leaks are exactly the ids whose alloc
\* event was tracked (not a CRT block, not re-entrant), was not denied by the
\* previously installed hook, whose block is not marked as the detector's
\* own, and that received no later free event.
C1_LeaksAreTrackedCreatedNotFreed ==
    phase = "reported" =>
        Reported = {e.id : e \in {x \in allocEv :
                                    /\ x.id \in trackedEv
                                    /\ x.id \notin deniedEv
                                    /\ x.id \notin freeEv
                                    /\ x.use # VLDINTERNALBLOCK}}

C1_Witness ==
    /\ phase = "reported"
    /\ leaks # <<>>
    /\ \E r \in freeEv : r \in trackedEv \ deniedEv

\* C2: whenever no request is in progress, the block map holds exactly the
\* request ids whose allocation was tracked and whose block is in the heap.
C2_LedgerIsTrackedAndLive ==
    (phase = "running" /\ Idle) => DOMAIN m_mallocmap = trackedEv \cap LiveIds

TrackingPcs == {"hookmalloc", "insert", "hookfree", "forward", "clear"}

\* C3: an event raised while its thread is inside the tracking section finds
\* the guard set and takes the skip path: a thread has at most one tracking
\* section active and its requests nest at most two deep.
C3_GuardSetBeforeInternalAllocation ==
    \A t \in Threads :
        /\ Len(stack[t]) <= 2
        /\ Cardinality({i \in 1..Len(stack[t]) : stack[t][i].pc \in TrackingPcs}) <= 1
        /\ \A i \in 2..Len(stack[t]) :
              /\ inallochook
              /\ stack[t][i].pc \notin TrackingPcs

C3_Witness ==
    \E t \in Threads :
        /\ Len(stack[t]) = 2
        /\ stack[t][1].pc = "insert"
        /\ stack[t][2].pc = "crt"

\* C4: every call a thread has started returns.
C4_EveryCallReturns ==
    \A t \in Threads : (stack[t] # <<>>) ~> (stack[t] = <<>>)

C4_Witness ==
    /\ calls = NumThreads
    /\ \A t \in Threads : stack[t] # <<>> /\ stack[t][1].type = "ALLOC"
    /\ \E t \in Threads : Len(stack[t]) = 2

\* C9: after reportleaks has run, a second run of the scan with no
\* allocation in between reports no leak.
C9_SecondScanReportsNothing ==
    phase = "reported" => LeakScan(heap, m_mallocmap) = <<>>

(***************************************************************************)
(* The import patcher.                                                     *)
(***************************************************************************)
\* Every entry of the table names a symbol its exporting module exports.
TableValid ==
    \A i \in 1..Len(patchtable) :
        GetProcAddress(patchtable[i].exportmodulename,
                       patchtable[i].importname) # 0

\* C6: patchmodule followed by restoremodule with the same table leaves
\* every import address table entry of the module holding the address it
\* held before the patch, also when entries of the table share a
\* replacement address or an exporting module.
C6_PatchRestoreRoundTrip ==
    (ops = <<"patch", "restore">> /\ ~aborted /\ TableValid) => idt = idt0

\* C7: patchmodule applied a second time with the same table changes no
\* import address table entry.
C7_PatchTwiceChangesNothing ==
    (ops = <<"patch", "patch">> /\ ~aborted /\ TableValid) => idt = idtPrev

\* The module has a descriptor for the entry's exporting module.
HasDescriptor(d, entry) ==
    d.present /\ FindDescriptor(d.descs, entry.exportmodulename, 1) # 0

\* The module imports the entry's symbol: the descriptor's table holds the
\* symbol's address.
Imports(d, entry) ==
    /\ HasDescriptor(d, entry)
    /\ LET k == FindDescriptor(d.descs, entry.exportmodulename, 1)
           import == GetProcAddress(entry.exportmodulename, entry.importname)
       IN  /\ import # 0
           /\ \E i \in 1..Len(d.descs[k].iat) : d.descs[k].iat[i] = import

ImportedEntries == SelectSeq(patchtable, LAMBDA e : Imports(idt0, e))

AssertionFails(d, entry) ==
    /\ asserts
    /\ HasDescriptor(d, entry)
    /\ GetProcAddress(entry.exportmodulename, entry.importname) = 0

RecordsOf(t) == {r \in m_tlsMap : r.thread = t}

LeakedSinceMark ==
    {id \in DOMAIN apiLog :
        /\ apiLog[id].epoch = epoch
        /\ apiLog[id].caller \notin IgnoreFunctionsList
        /\ id \notin apiFreed}

IgnoredAllocations ==
    {id \in DOMAIN apiLog : apiLog[id].caller \in IgnoreFunctionsList}

C12_TruncatedAndTerminated ==
    (returned /\ reportCall.natural > Len(message)) =>
        /\ debugOut.outcome # "fault"
        /\ Terminated(message)
        /\ strlen(message) <= Len(message) - 1

(***************************************************************************)
(* reportleaks() on one leaked block.                                      *)
(***************************************************************************)
\* C13: for one leaked block whose call stack has any number of frames up
\* to _VLD_maxtraceframes, no step of reportleaks aborts, and when
\* reportleaks has ended the block was reported as a leak and the summary
\* and the cleanup of the symbol handler were reached.
C13_DeepStackReportCompletes ==
    /\ rl.pc # "fault"
    /\ rl.pc = "done" =>
          rl.leaksfound = 1 /\ rl.summary /\ rl.cleanup

(***************************************************************************)
(* allochook: status, forwarding, skip path.                               *)
(***************************************************************************)
\* The activations allochook has been called for and has finished with.
Answered ==
    {f \in UNION {{stack[t][i] : i \in 1..Len(stack[t])} : t \in Threads} :
        f.path # "none" /\ f.pc \in {"clear", "crt"}}

\* C14: the status allochook returns for an event is true when there is no
\* previous hook, and otherwise the status the previous hook returned for
\* that event; allochook never denies a request on its own.
C14_StatusIsThePreviousHooks ==
    \A f \in Answered :
        IF m_poldhook = "NULL"
           THEN f.status = TRUE
           ELSE f.fwd > 0 /\ f.status = f.old

C14_Witness ==
    \E f \in Answered :
        /\ f.type = "REALLOC"
        /\ f.path = "track"
        /\ f.fwd > 0
        /\ f.old = FALSE
        /\ f.status = FALSE

\* C15: for every event, on the tracking path and on the skip path, the
\* previous hook is called exactly once with the arguments of the event
\* when there is one, and not at all when there is none; without a
\* previous hook the event still ends with success.
C15_ForwardedExactlyOnce ==
    \A f \in Answered :
        IF m_poldhook = "NULL"
           THEN f.fwd = 0 /\ f.status = TRUE
           ELSE f.fwd = 1 /\ f.args = Args(f)

C15_Witness ==
    \E t \in Threads : \E i, j \in 1..Len(stack[t]) :
        /\ i < j
        /\ stack[t][i].path = "track"
        /\ stack[t][j] \in Answered
        /\ stack[t][j].path = "skip"
        /\ stack[t][j].fwd = 1
        /\ stack[t][j].args = Args(stack[t][j])

\* C16: an event that arrives while inallochook is set, or whose use is
\* _CRT_BLOCK, leaves m_mallocmap and inallochook as they were, and the
\* call is over after that step.
C16_SkipPathLeavesLedgerAndGuard ==
    [][\A t \in Threads :
          (/\ stack[t] # <<>>
           /\ Top(t).pc = "hook"
           /\ (inallochook \/ Top(t).use = CRT_BLOCK)
           /\ stack'[t] # stack[t])
          => /\ m_mallocmap' = m_mallocmap
             /\ inallochook' = inallochook
             /\ Len(stack'[t]) = Len(stack[t])
             /\ stack'[t][Len(stack[t])].pc = "crt"]_vars

C16_Witness ==
    \E t \in Threads : \E i, j \in 1..Len(stack[t]) :
        /\ i < j
        /\ stack[t][j].path = "skip"
        /\ stack[t][j].pc = "crt"
        /\ stack[t][j].use # CRT_BLOCK
        /\ inallochook
        /\ m_mallocmap # EmptyMap

(***************************************************************************)
(* Installation and detach.                                                *)
(***************************************************************************)
Said(text) == Cardinality({i \in DOMAIN diag : diag[i] = text})

\* dbghelp.dll cannot be loaded, or lacks a function the detector needs.
LinkingFailure ==
    \/ ~dbghelp.loaded
    \/ \E name \in RequiredNames : name \notin dbghelp.exports

\* C17: if dbghelp.dll cannot be loaded or a required function is not in
\* it, the detector is not installed: the allocation hook is the one the
\* process had, "IS NOT installed" is reported exactly once, no event is
\* ever tracked, and at shutdown there is no leak scan and no hook is
\* restored.
C17_LinkingFailureDisablesEngine ==
    LinkingFailure =>
        /\ ~m_installed
        /\ pfnAllocHook = hook0
        /\ Said("IS NOT installed") = 1
        /\ Said("installed") = 0
        /\ trackedEv = {} /\ allocEv = {} /\ freeEv = {}
        /\ m_mallocmap = EmptyMap
        /\ phase \in {"running", "exited"}
        /\ leaks = <<>>
        /\ scanEv.events = 0

C17_Witness ==
    /\ dbghelp.loaded
    /\ "SymSetOptions" \notin dbghelp.exports
    /\ hook0 = "oldhook"
    /\ phase = "exited"
    /\ Len(heap) > 1
    /\ deniedEv # {}

\* C18: if at detach the installed hook is a third party's and not
\* allochook, then after detach the third party's hook is installed again,
\* neither allochook nor m_poldhook is, the warning was reported once, and
\* reportleaks still runs.
C18_ThirdPartyHookPutBack ==
    (phase \in {"detached", "reported"} /\ theirHook # "none") =>
        /\ pfnAllocHook = "theirs"
        /\ Said("WARNING: unhooked prematurely") = 1
        /\ phase = "detached" => ENABLED ReportLeaks

C18_Witness ==
    /\ phase = "reported"
    /\ theirHook = "replacing"
    /\ m_poldhook = "oldhook"
    /\ pfnAllocHook = "theirs"
    /\ leaks # <<>>

\* C19: reportleaks runs only when allochook is out of the hook chain, and
\* from its start to its end allochook receives no event and m_mallocmap is
\* not changed, the throwaway allocation and free of the scan included.
C19_ScanSeesNoEvent ==
    /\ phase \in {"detached", "reported"} => ~ReachesAllochook
    /\ phase = "reported" =>
          /\ scanEv.events = 0
          /\ scanEv.inserted = {}
          /\ scanEv.erased = {}

(***************************************************************************)
(* The import patcher at detach.                                           *)
(***************************************************************************)
\* The addresses the import address tables of the module hold.
IatAddresses ==
    UNION {{idt.descs[k].iat[i] : i \in 1..Len(idt.descs[k].iat)} :
             k \in 1..Len(idt.descs)}

\* The module was patched and restoremodule was the last thing applied to it.
RestoredAtDetach ==
    /\ ops # <<>>
    /\ ops[Len(ops)] = "restore"
    /\ \E i \in 1..Len(ops) : ops[i] = "patch"
    /\ ~aborted
    /\ TableValid

\* C20: once restoremodule has run at detach, every import address table
\* entry that was patched holds its original address again, and no entry
\* of the module holds a replacement address.
C20_DetachRestoresEveryImport ==
    RestoredAtDetach =>
        /\ idt = idt0
        /\ IatAddresses \cap Replacements = {}

(***************************************************************************)
(* reportleaks(): the walk and the summary.                                *)
(***************************************************************************)
\* The scan is past the walk of the list.
Walked == sc.pc \in {"cleanup", "done"}

\* C21: whatever the symbol handler answers, the block headers and the
\* leak count of a scan are those of the leaked blocks of the list, and a
\* frame whose file and line lookup failed is printed in the form without
\* file and line.
C21_SymbolFailureOnlyDegradesText ==
    /\ Walked =>
          /\ sc.headers = Walk(scanList, scanMap)
          /\ sc.leaksfound = Len(Walk(scanList, scanMap))
    /\ ~sc.last.lineok => sc.last.form = "unavailable"

\* C22: the summary is 'No memory leaks detected.' when no block header was
\* printed, 'Detected 1 memory leak.' when one was, and 'Detected N memory
\* leaks.' when N > 1 were.
C22_SummaryMatchesHeaders ==
    Walked =>
        LET N == Len(sc.headers)
        IN  sc.summary =
               IF N = 0 THEN <<"No memory leaks detected.\n">>
               ELSE IF N = 1 THEN <<"Detected ", 1, " memory leak", ".\n">>
               ELSE <<"Detected ", N, " memory leak", "s.\n">>

C22_Witness ==
    /\ sc.pc = "done"
    /\ Len(sc.headers) = 2
    /\ Len(scanList) = 3
    /\ sc.summary[4] = "s.\n"

(***************************************************************************)
(* buildsymbolsearchpath().                                                *)
(***************************************************************************)
\* C23: the symbol search path buildsymbolsearchpath stores holds no
\* double-quote character, for every command line and every value of the
\* environment variables, also with two or more quotes next to each other.
C23_SearchPathHasNoQuote ==
    \A i \in 1..Len(m_symbolpath) : m_symbolpath[i] # Quote

\* C24: an allocation the previously installed hook makes while it handles
\* an event forwarded from the tracking path reaches allochook with the
\* guard clear, the guard having been cleared before the hook was called.
C24_PreviousHookAllocSeesGuardClear ==
    \A t \in Threads : \A i \in 1..Len(stack[t]) :
        (stack[t][i].owner = "oldhook" /\ stack[t][i].pc = "hook")
            => ~inallochook

\* C25: once no request is in progress, the block map holds no record for a
\* request id whose alloc event the previously installed hook vetoed, and
\* it still holds the record of a tracked block whose free event was vetoed.
C25_VetoLeavesLedgerAsBefore ==
    Idle => \A r \in deniedEv :
              /\ (r \in AllocIds /\ r \notin LiveIds)
                    => r \notin DOMAIN m_mallocmap
              /\ (r \in freeEv /\ r \in LiveIds /\ r \in trackedEv)
                    => r \in DOMAIN m_mallocmap

\* A call of allochook is active on thread t: one of its requests is
\* between the entry of the hook and its return.
InDispatcher(t) ==
    \E i \in 1..Len(stack[t]) : stack[t][i].pc \notin {"lock", "crt"}

AppAlloc(f) == f.owner = "app" /\ f.type = "ALLOC" /\ f.use # CRT_BLOCK

\* C27: an alloc event of the application that is not internal to the CRT
\* finds the guard clear when it reaches allochook, whatever the other
\* threads are doing, and is tracked: no thread's event is skipped because
\* another thread has set the guard.
C27_OtherThreadsGuardNeverSkips ==
    \A t \in Threads : \A i \in 1..Len(stack[t]) :
        LET f == stack[t][i]
        IN  AppAlloc(f) =>
              /\ f.pc = "hook" => ~inallochook
              /\ f.path # "none" =>
                    /\ f.path = "track"
                    /\ f.request \in trackedEv

\* Thread b's alloc is being tracked after thread a's was, while thread a
\* has come back with another request and waits for the heap.
C27_Witness ==
    \E a \in Threads : \E b \in Threads \ {a} :
        /\ stack[a] # <<>> /\ stack[b] # <<>>
        /\ AppAlloc(stack[b][1])
        /\ stack[b][1].pc = "hookmalloc"
        /\ AppAlloc(stack[a][1])
        /\ stack[a][1].pc = "lock"
        /\ inallochook
        /\ Cardinality(trackedEv) >= 2

\* hookmalloc and hookfree are at work on m_mallocmap for thread t: from the
\* entry of the handler to the end of insert or erase, the allocation and
\* the release of the Pair included.
InLedgerMutation(t) ==
    \E i \in 1..Len(stack[t]) :
        /\ stack[t][i].path = "track"
        /\ \/ stack[t][i].pc \in {"hookmalloc", "insert", "hookfree", "hookrealloc"}
           \/ i < Len(stack[t]) /\ stack[t][i + 1].owner = "vld"

\* C28: at most one thread at a time is inside an insert or an erase of
\* m_mallocmap, and that thread holds the lock of the debug heap.
C28_LedgerMutationsSerialized ==
    /\ Cardinality({t \in Threads : InLedgerMutation(t)}) <= 1
    /\ \A t \in Threads : InLedgerMutation(t) => heapLock.owner = t

\* One thread is inside an insert while the other waits for the heap with
\* an event that will change the map as well.
C28_Witness ==
    \E a \in Threads : \E b \in Threads \ {a} :
        /\ stack[a] # <<>> /\ stack[b] # <<>>
        /\ stack[a][1].pc = "insert"
        /\ stack[b][1].pc = "lock"
        /\ stack[b][1].type = "FREE"
        /\ stack[b][1].request \in DOMAIN m_mallocmap

\* C29: while allochook handles a free event for request id r, no step
\* adds to the diagnostics or touches a record of m_mallocmap other than
\* r's; if r has no record the map stays as it is, and once hookfree has
\* run the map holds no record for r.
C29_FreeErasesOnlyItsId ==
    [][\A t \in Threads :
         (stack[t] # <<>> /\ stack[t][1].type = "FREE" /\ stack[t][1].pc # "lock")
           => LET r == stack[t][1].request
              IN  /\ diag' = diag
                  /\ DOMAIN m_mallocmap' \subseteq DOMAIN m_mallocmap
                  /\ \A x \in DOMAIN m_mallocmap \ {r} :
                        x \in DOMAIN m_mallocmap' /\ m_mallocmap'[x] = m_mallocmap[x]
                  /\ r \notin DOMAIN m_mallocmap => m_mallocmap' = m_mallocmap
                  /\ (stack[t][1].pc = "hookfree" /\ stack'[t] # stack[t])
                        => r \notin DOMAIN m_mallocmap']_vars

\* hookfree has run for a block whose request id was never tracked; the map
\* still holds a record and nothing was reported since the constructor.
C29_Witness ==
    \E t \in Threads :
        /\ stack[t] # <<>>
        /\ stack[t][1].type = "FREE"
        /\ stack[t][1].path = "track"
        /\ stack[t][1].pc = "forward"
        /\ stack[t][1].request \notin trackedEv
        /\ m_mallocmap # EmptyMap
        /\ diag = <<"installed">>

\* C30: while allochook handles a realloc event for the block with request
\* id r, no step touches a record of m_mallocmap other than r's or adds a
\* key other than r; once hookrealloc has run the map holds a record under
\* r with the Pair made during this event, and none under the number of the
\* realloc request.
C30_ReallocReinsertsSameId ==
    [][\A t \in Threads :
         (stack[t] # <<>> /\ stack[t][1].type = "REALLOC" /\ stack[t][1].path = "track")
           => LET r == stack[t][1].pdata
              IN  /\ DOMAIN m_mallocmap' \subseteq DOMAIN m_mallocmap \cup {r}
                  /\ \A x \in DOMAIN m_mallocmap \ {r} :
                        x \in DOMAIN m_mallocmap' /\ m_mallocmap'[x] = m_mallocmap[x]
                  /\ (stack'[t] # <<>> /\ stack'[t][1].pc \in {"forward", "clear", "crt"})
                        => /\ r \in DOMAIN m_mallocmap'
                           /\ m_mallocmap'[r].pair = stack'[t][1].pair
                           /\ stack'[t][1].pair > stack'[t][1].request
                           /\ stack'[t][1].request \notin DOMAIN m_mallocmap']_vars

\* hookrealloc has run for a tracked block while the map holds the record
\* of another block.
C30_Witness ==
    \E t \in Threads :
        /\ stack[t] # <<>>
        /\ stack[t][1].type = "REALLOC"
        /\ stack[t][1].path = "track"
        /\ stack[t][1].pc = "forward"
        /\ stack[t][1].pdata \in trackedEv
        /\ stack[t][1].pdata \in DOMAIN m_mallocmap
        /\ m_mallocmap[stack[t][1].pdata].pair = stack[t][1].pair
        /\ Cardinality(DOMAIN m_mallocmap) >= 2

\* C31: in the report no live block marked VLDINTERNALBLOCK is a leak, also
\* when m_mallocmap holds its request id, and a live block with another use
\* is a leak exactly when m_mallocmap holds its request id.
C31_LeakIsLedgerHitNotInternal ==
    phase = "reported" =>
        /\ Reported \subseteq LiveIds
        /\ \A i \in 1..Len(heap) :
              IF heap[i].nBlockUse = VLDINTERNALBLOCK
                 THEN heap[i].lRequest \notin Reported
                 ELSE heap[i].lRequest \in Reported
                         <=> heap[i].lRequest \in DOMAIN m_mallocmap

\* The report was made with a tracked internal block and an untracked
\* block of the application in the heap, and with a leak.
C31_Witness ==
    /\ phase = "reported"
    /\ leaks # <<>>
    /\ \E i \in 1..Len(heap) :
          /\ heap[i].nBlockUse = VLDINTERNALBLOCK
          /\ heap[i].lRequest \in DOMAIN m_mallocmap
    /\ \E i \in 1..Len(heap) :
          /\ heap[i].nBlockUse = CRT_BLOCK
          /\ heap[i].lRequest \notin DOMAIN m_mallocmap

\* The request ids of a list, in the order of the list.
IdsOf(list) == [i \in 1..Len(list) |-> list[i].lRequest]

\* C32: the throwaway block leaves the allocated list as it was; the loop
\* never visits the throwaway block or a block twice, and when it ends it
\* has visited the blocks of the list once each, from head to tail, with
\* and without the data dump and for leaked and other blocks alike.
C32_WalkVisitsEveryBlockOnce ==
    /\ wk.pc \in {"loop", "done"} => wk.list = wk.before
    /\ \A i \in 1..Len(wk.visited) :
          /\ wk.visited[i] # wk.pheap
          /\ \A j \in 1..Len(wk.visited) : wk.visited[i] = wk.visited[j] => i = j
    /\ wk.pc = "done" => wk.visited = IdsOf(wk.before)

\* The walk has ended with the dump disabled over a list that holds a
\* leaked block followed by a block that is no leak.
C32_Witness ==
    /\ wk.pc = "done"
    /\ wk.maxdatadump = 0
    /\ \E i \in 1..(Len(wk.before) - 1) :
          /\ IsLeak(wk.before[i], wk.map)
          /\ ~IsLeak(wk.before[i + 1], wk.map)
          /\ wk.visited[i + 1] = wk.before[i + 1].lRequest

\* C33: a frame the loop has dealt with was passed over exactly when
\* _VLD_showuselessframes is off, its line lookup succeeded and the file
\* is one of the noise list; a frame whose lookup failed was printed.
C33_SuppressedIffResolvedNoise ==
    \A i \in 1..Len(fl.out) :
        LET e == fl.out[i]
        IN  /\ ~e.shown <=> /\ ~fl.showuselessframes
                            /\ e.input.lineok
                            /\ IsNoise(e.input.file)
            /\ ~e.input.lineok => e.shown

\* A frame whose lookup failed was printed right after a frame of the noise
\* list was passed over.
C33_Witness ==
    \E i \in 2..Len(fl.out) :
        /\ ~fl.out[i - 1].shown
        /\ ~fl.out[i].input.lineok
        /\ fl.out[i].shown
        /\ fl.sourceinfo.set

\* C34: a frame whose line lookup failed is printed in the form without
\* file and line, and a frame whose name lookup failed is printed with the
\* text for an unavailable function name.
C34_FailedLookupPrintsAddressForm ==
    \A i \in 1..Len(fl.out) :
        LET e == fl.out[i]
        IN  e.shown =>
              /\ ~e.input.lineok =>
                    e.line.form = "0xADDR (File and line number not available): function"
              /\ ~e.input.nameok =>
                    e.line.function = "(Function name unavailable)"

\* The number of steps of the walk in which StackWalk64 gave a frame.
Successes == Cardinality({i \in 1..Len(tr.steps) : tr.steps[i] = "ok"})

\* C35: getstacktrace pushes one program counter for each step in which
\* StackWalk64 succeeds with a frame pointer that is not zero, and none for
\* the step that fails or finds the frame pointer zero, which is the last
\* step; it never makes more than _VLD_maxtraceframes steps, pushes nothing
\* when _VLD_maxtraceframes is 0, and always comes to its end.
C35_TraceIsBoundedAndEnds ==
    /\ [](/\ tr.count <= tr.maxtraceframes
          /\ Len(tr.callstack) <= tr.maxtraceframes
          /\ Len(tr.callstack) = Successes
          /\ \A i \in 1..(Len(tr.steps) - 1) : tr.steps[i] = "ok"
          /\ tr.maxtraceframes = 0 => tr.callstack = <<>>
          /\ tr.pc = "done" =>
                \/ tr.count = tr.maxtraceframes
                \/ tr.steps[Len(tr.steps)] # "ok")
    /\ <>(tr.pc = "done")

\* The walk went through every frame of the thread and ended where the
\* frame pointer is zero, below the limit.
C35_Witness ==
    /\ tr.pc = "done"
    /\ tr.steps # <<>>
    /\ tr.steps[Len(tr.steps)] = "zero"
    /\ Len(tr.callstack) = Len(tr.thread)
    /\ tr.count < tr.maxtraceframes

\* C36: the captured CallStack holds neither the frame of getstacktrace nor
\* the frame of allochook: it begins at the caller of getstacktrace.
C36_TraceStartsAtCaller ==
    /\ \A i \in 1..Len(tr.callstack) :
          tr.callstack[i] \notin {"getstacktrace", "allochook"}
    /\ tr.callstack # <<>> => tr.callstack[1] = tr.thread[2]

Rows == SelectSeq(du.out, LAMBDA line : line.kind = "row")

\* The number of bytes the dump of the block is to cover.
Covered ==
    IF du.fn = "dumpuserdatablock"
       THEN Min(du.maxdatadump, Len(du.data))
       ELSE Len(du.data)

\* Row r shows byte position p (0..15) as the two hex digits and the
\* character of the byte, or as padding past the last byte covered.
PositionShown(r, p) ==
    LET b == (RowBytes * (r - 1)) + p
        hex == Rows[r].hex
        asc == Rows[r].asc
    IN  IF b < Covered
           THEN /\ <<hex[HexIndex(p) + 1], hex[HexIndex(p) + 2]>>
                      = SubSeq(FormatByte(du.data[b + 1]), 1, 2)
                /\ asc[AscIndex(p) + 1] = AscChar(du.data[b + 1])
           ELSE /\ <<hex[HexIndex(p) + 1], hex[HexIndex(p) + 2]>> = <<" ", " ">>
                /\ asc[AscIndex(p) + 1] = "."

\* C37: the dump of a block reads exactly the first min(maximum dump
\* size, block size) bytes, each once and in order, and prints them as
\* ceil(that / 16) rows of 16 byte positions, the positions past the last
\* byte being padding; with a maximum dump size of 0 neither the Data
\* header nor a row is reported; every store into hexdump and ascdump is
\* inside the buffer and the last element of each stays the terminator.
C37_DumpCoversMinInPaddedRows ==
    /\ du.pc # "idle" =>
          /\ du.inside
          /\ du.hexdump[HexSize - 1] = NUL
          /\ du.ascdump[AscSize - 1] = NUL
    /\ (du.fn = "dumpuserdatablock" /\ du.maxdatadump = 0) => du.out = <<>>
    /\ du.pc = "done" =>
          /\ du.reads = [i \in 1..Covered |-> i - 1]
          /\ Len(Rows) = (Covered + (RowBytes - 1)) \div RowBytes
          /\ \A r \in 1..Len(Rows) :
                /\ Len(Rows[r].hex) = HexSize - 1
                /\ Len(Rows[r].asc) = AscSize - 1
                /\ \A p \in 0..(RowBytes - 1) : PositionShown(r, p)

\* A block of 18 bytes was dumped with a maximum of 17: two rows, the
\* second one padded after its first byte.
C37_Witness ==
    /\ du.pc = "done"
    /\ du.fn = "dumpuserdatablock"
    /\ du.maxdatadump = 17
    /\ Len(du.data) = 18
    /\ Len(Rows) = 2
    /\ Len(du.reads) = 17

\* The entries of the import address tables that differ from what they
\* held when the call was made.
Changed ==
    {w \in UNION {{<<k, i>> : i \in 1..Len(im.idt.descs[k].iat)} :
                    k \in 1..Len(im.idt.descs)} :
        im.idt.descs[w[1]].iat[w[2]] # im.before.descs[w[1]].iat[w[2]]}

Written == {im.writes[n] : n \in 1..Len(im.writes)}

NamedBy(k) ==
    StrICmpEqual(im.idt.descs[k].Name, im.entry.exportmodulename)

\* C38: one call of patchimport or restoreimport stores into at most one
\* entry of the import address tables, an entry of the table of a
\* descriptor whose name equals the exporting module's name without regard
\* to case; nothing else of the directory changes, and the table of a
\* descriptor of another module is as it was at the call.
C38_OneEntryOfTheNamedModule ==
    /\ Len(im.writes) <= 1
    /\ Changed \subseteq Written
    /\ \A w \in Written : NamedBy(w[1])
    /\ Len(im.idt.descs) = Len(im.before.descs)
    /\ \A k \in 1..Len(im.idt.descs) :
          /\ im.idt.descs[k].Name = im.before.descs[k].Name
          /\ Len(im.idt.descs[k].iat) = Len(im.before.descs[k].iat)
          /\ ~NamedBy(k) => im.idt.descs[k] = im.before.descs[k]

\* restoreimport has restored an entry of the named module while the table
\* of another module held the address it looked for.
C38_Witness ==
    /\ im.pc = "returned"
    /\ im.fn = "restoreimport"
    /\ Len(im.writes) = 1
    /\ Changed = Written
    /\ im.entry.exportmodulename = "crt.dll"
    /\ im.idt.descs[im.k].Name = "CRT.DLL"
    /\ \E k \in 1..Len(im.idt.descs) :
          /\ ~NamedBy(k)
          /\ \E i \in 1..Len(im.idt.descs[k].iat) :
                /\ im.before.descs[k].iat[i] = im.entry.replacement
                /\ im.idt.descs[k].iat[i] = im.entry.replacement

\* C39: an entry is stored into only while its page is writable, between
\* the two calls of VirtualProtect, and when patchimport or restoreimport
\* has returned every page has the protection it had at the call.
C39_ProtectionAsBeforeTheCall ==
    /\ im.pc # "fault"
    /\ im.pc \in {"write", "restore"} => im.prot[im.k] = "PAGE_READWRITE"
    /\ im.pc = "returned" => im.prot = im.protBefore

\* A call has stored into an entry of a read-only page and returned.
C39_Witness ==
    /\ im.pc = "returned"
    /\ Len(im.writes) = 1
    /\ im.protBefore[im.k] = "PAGE_READONLY"
    /\ im.prot[im.k] = "PAGE_READONLY"

\* C40 (as stated): every block the object allocates for itself is
\* released at most once, and when the destructor has returned, installed
\* or not, none of them is still held.
C40_EverythingReleasedOnce ==
    /\ \A i, j \in 1..Len(lc.released) :
          i # j => lc.released[i] # lc.released[j]
    /\ lc.pc = "destroyed" => lc.held = {}

====
